---- MODULE Spec2Model ----
(***************************************************************************)
(* Keepers download manager (src/src/main.rs): the download engine          *)
(* (start_download, download_chunk, download_sequential, retry_request),    *)
(* the journal (load_downloads, save_downloads) and the command handlers    *)
(* of the GTK main thread (build_ui, add_download, add_completed_download). *)
(*                                                                         *)
(* Threads.  The GTK main thread runs the command handlers and the event   *)
(* receivers, one at a time.  Every download run has an engine thread; a   *)
(* parallel run has one tokio task per segment.  A step of the model is    *)
(* one handler up to its next save_downloads call, one step of a save      *)
(* (write of the temporary file, rename), or one step of an engine between *)
(* two suspension points.                                                  *)
(*                                                                         *)
(* Data.  File contents are kept per block of Block bytes; every length    *)
(* and offset of the model is a byte count that is a multiple of Block.    *)
(***************************************************************************)
EXTENDS Integers, Sequences, FiniteSets, TLC

----------------------------------------------------------------------------
(* Program constants *)

MIN_CHUNK_SIZE == 1048576
DEFAULT_NUM_CHUNKS == 4
MAX_RETRIES == 3
RETRY_DELAY_SECS == 2
MiB == 1024 * 1024

(* Bounds of the model *)

MaxRuns == 2      \* add_download calls in one behaviour
MaxKills == 1     \* process kills in one behaviour
MaxFaults == 1    \* request attempts or streams the network fails
MaxTries == 3     \* the same, in the scenario of the repeated failures
MaxQueue == 1     \* Progress messages waiting in one channel
MaxJournal == 2   \* records of a journal that an earlier process left
CalcSmall == 8    \* SpecCalc: the file sizes 1..CalcSmall besides the large ones

Block == MIN_CHUNK_SIZE \div 4

----------------------------------------------------------------------------
(* The remote resources.  A url is the sequence of its '/'-separated parts. *)

UrlSmall == <<"h", "a", "small">>
UrlBig == <<"h", "a", "big">>
UrlBig2 == <<"h", "b", "big">>
AllUrls == {UrlSmall, UrlBig, UrlBig2}

\* bytes of the resource, whether HEAD carries Content-Length, and
\* whether the server honours Range requests (Accept-Ranges: bytes).
Resource(u) ==
    IF u = UrlSmall
    THEN [len |-> 2 * Block, has_length |-> TRUE, ranges |-> TRUE]
    ELSE [len |-> 8 * Block, has_length |-> TRUE, ranges |-> TRUE]

\* block i (from 1) of the resource at u
SourceCell(u, i) == [u |-> u, i |-> i]
Hole == [u |-> <<>>, i |-> 0]

\* the blocks of u covering the bytes [from, to)
SourceBlocks(u, from, to) ==
    [k \in 1..((to - from) \div Block) |-> SourceCell(u, (from \div Block) + k)]

SourceFile(u) == SourceBlocks(u, 0, Resource(u).len)

Filename(url) == url[Len(url)]

----------------------------------------------------------------------------
(* Option<T>: <<>> is None, <<x>> is Some(x) *)

None == <<>>
Some(x) == <<x>>
IsSome(o) == Len(o) = 1

(* Vec helpers *)

RetainEvery(recs, url) == recs

RECURSIVE Retain(_, _)
\* records.retain(|r| r.url != url)
Retain(recs, url) ==
    IF recs = <<>> THEN <<>>
    ELSE IF Head(recs).url = url THEN Retain(Tail(recs), url)
    ELSE <<Head(recs)>> \o Retain(Tail(recs), url)

FindNothing(recs, url) == 0

\* records.iter().find(|r| r.url == url): index of the first match, 0 if none
Find(recs, url) ==
    IF \E i \in 1..Len(recs) : recs[i].url = url
    THEN CHOOSE i \in 1..Len(recs) :
            /\ recs[i].url = url
            /\ \A j \in 1..(i - 1) : recs[j].url # url
    ELSE 0

----------------------------------------------------------------------------
(* Journal files *)

JournalPath == "downloads.json"
TempPathAtomic == "downloads.json.tmp"
TempPathInPlace == JournalPath
\* file_path.with_extension("json.tmp")
TempPath == TempPathAtomic

Absent == [kind |-> "absent", data |-> <<>>]
\* a file whose write has begun and not ended
Partial == [kind |-> "partial", data |-> <<>>]
\* serde_json::to_string_pretty(records)
ToJson(recs) == [kind |-> "full", data |-> recs]
\* serde_json::from_str(&contents).unwrap_or_else(|_| Vec::new())
FromJson(file) == IF file.kind = "full" THEN file.data ELSE <<>>

VARIABLES
    phase,          \* "down": no process; "starting": build_ui runs; "up"
    jfs,            \* the data directory: JournalPath and TempPath
    committed,      \* history: the list of the last save that ended
    records,        \* AppState.records
    saved_records,  \* build_ui: the list load_downloads returned
    passive,        \* rows of add_completed_download
    ui,             \* the GTK main thread: [pc, todo]
    runs,           \* per add_download call: task, engine, channel, row
    nextRun,        \* add_download calls so far; also the clock of Utc::now()
    inodes,         \* download directory: contents by inode
    dfs,            \* download directory: path -> inode, 0 when absent
    dialog,         \* the duplicate warning shown last, None if none
    kills,          \* process kills so far
    faults,         \* network failures so far
    scenario,       \* what the environment does in this behaviour, fixed
    calc,           \* SpecCalc: the inputs of the pure steps and their results
    locks,          \* SpecLocks: who holds each mutex, and each thread's place
    begun           \* history: the list of the last save that began

vars == <<phase, jfs, committed, records, saved_records, passive, ui, runs,
          nextRun, inodes, dfs, dialog, kills, faults, scenario, calc, locks,
          begun>>

----------------------------------------------------------------------------
(* Download directory: paths, inodes, open handles *)

Names == {Filename(u) : u \in AllUrls}
\* download_dir.join(format!("{}.part", filename))
PartPath(name) == <<name, ".part">>
\* download_dir.join(&filename)
FinalPath(name) == <<name>>
Paths == {PartPath(n) : n \in Names} \cup {FinalPath(n) : n \in Names}

NoInode == [live |-> FALSE, cells |-> <<>>]
Exists(path) == dfs[path] # 0
\* std::fs::metadata(path).len(), in bytes
FileLen(path) == Len(inodes[dfs[path]].cells) * Block

\* write of cells at byte offset off; a write past the end extends the file
WriteAt(cells, off, data) ==
    LET o == off \div Block
        n == IF o + Len(data) > Len(cells) THEN o + Len(data) ELSE Len(cells)
    IN [k \in 1..n |->
          IF k > o /\ k <= o + Len(data) THEN data[k - o]
          ELSE IF k <= Len(cells) THEN cells[k] ELSE Hole]

\* an inode lives while a path or an open handle refers to it
Collect(ino, fs, rs) ==
    [i \in DOMAIN ino |->
        IF (\E p \in Paths : fs[p] = i)
           \/ (\E r \in DOMAIN rs : rs[r].fh = i /\ rs[r].pc # "done")
        THEN ino[i] ELSE NoInode]

----------------------------------------------------------------------------
(* Records, tasks, runs *)

\* add_download: initial_record; now is Utc::now()
NewRecord(u, now) ==
    [url |-> u, filename |-> Filename(u), file_path |-> None,
     status |-> "InProgress", date_added |-> now, date_completed |-> None,
     downloaded_bytes |-> 0, total_bytes |-> 0, was_paused |-> FALSE]

NoRun ==
    [url |-> <<>>, pc |-> "none",
     paused |-> FALSE, cancelled |-> FALSE, file_path |-> None,
     attempt |-> 0, total_size |-> 0, supports_range |-> FALSE,
     is_resume |-> FALSE, downloaded |-> 0, resumed_at |-> 0, fh |-> 0,
     from |-> 0, to |-> 0, frame |-> 0, status |-> 0,
     append |-> FALSE, passed |-> FALSE, workers |-> <<>>, chan |-> <<>>,
     rx |-> "none",
     \* Arc<Mutex<File>> of the parallel engine: the worker that holds the
     \* guard (0: nobody) and the position of the file while the guard is
     \* held (every write follows a seek made under the same guard, so the
     \* position a write leaves behind is read by nobody and is kept as 0)
     file_guard |-> 0, cursor |-> 0,
     row |-> FALSE, btn |-> {},
     \* history of the run: a network failure hit it, the mode it chose,
     \* the blocks of the .part file it found, its terminal event, the
     \* blocks of the file it renamed
     faulted |-> FALSE, mode |-> "none", found |-> <<>>, ended |-> "",
     product |-> <<>>,
     \* retry_request: the sleeps of the call in progress, in seconds, and
     \* history: the error the last failed call returned
     slept |-> <<>>, failure |-> <<>>,
     \* history: the status of the response to the HEAD, 0 if none
     head_status |-> 0]

\* add_download: the DownloadTask, the row with its pause and cancel
\* buttons, the channel and its receiver
NewRun(u) ==
    [NoRun EXCEPT !.url = u, !.pc = "wait", !.rx = "live", !.row = TRUE,
                  !.btn = {"pause", "cancel"}]

\* the button is on a row of the list and visible
Shows(r, b) == runs[r].row /\ b \in runs[r].btn

RunIds == 1..MaxRuns

(* The mutexes: which thread holds each, and where each thread is in the
   handler it runs. The main thread runs one handler at a time; the engine
   and its segment workers run beside it. *)

LockNames == {"state", "records", "config", "task", "timer_running",
              "last_size", "file", "progress", "last_update",
              "last_downloaded"}

MaxLockWorkers == 2
LockWorkers == {<<"worker", k>> : k \in 1..MaxLockWorkers}
MainThread == <<"main", 0>>
EngineThread == <<"engine", 0>>
Threads == {MainThread, EngineThread} \cup LockWorkers
Nobody == <<"nobody", 0>>

Lock(l) == <<"lock", l>>
Unlock(l) == <<"unlock", l>>
\* if let Ok(guard) = m.lock() { ... }: the guard dies with the block
Alone(l) == <<Lock(l), Unlock(l)>>
\* if let Ok(a) = outer.lock() { if let Ok(b) = a.inner.lock() { ... } }
Nested(outer, inner) ==
    <<Lock(outer), Lock(inner), Unlock(inner), Unlock(outer)>>

\* the response of the preferences dialog, the window being closed
save_config_handler == Nested("state", "config")
\* build_ui marking the interrupted records, the duplicate check of the
\* add dialog, the delete buttons, the records part of cancel and restart
records_of_state == Nested("state", "records")
\* the 500 ms timer that saves the window size
size_save_timer ==
    <<Lock("timer_running"), Lock("state"), Lock("config"),
      Unlock("config"), Unlock("state"), Unlock("timer_running")>>
\* the 100 ms timer that watches the window size
size_check_timer == Alone("last_size") \o Alone("timer_running")
\* the resume button of a row of add_completed_download
passive_resume == Alone("state") \o Alone("records")
\* the restart button of such a row
passive_restart ==
    Alone("state") \o Alone("records") \o Nested("state", "config")
\* add_download up to the start of the engine
add_download == Alone("state") \o Alone("records") \o Alone("state")
                    \o Alone("state")
\* the receiver: a Progress message with and without the 5 s snapshot
on_progress == Alone("records")
on_progress_snapshot == Alone("records") \o Alone("task") \o Alone("records")
\* the receiver: Complete, and Error
on_complete == Alone("task") \o Alone("records")
on_error == Alone("records")
\* the open, folder and info buttons
open_button == Alone("task")
info_button == Alone("records")
\* the pause button: the save happens while the task is still locked
pause_button == Nested("task", "records")
\* the cancel button: the task guard is gone before the state is locked
cancel_button == Alone("task") \o Nested("state", "records")
\* the restart button of a row of add_download, add_download following
restart_button ==
    Nested("state", "records") \o Nested("state", "config") \o add_download

MainPrograms ==
    {save_config_handler, records_of_state, size_save_timer,
     size_check_timer, passive_resume, passive_restart, add_download,
     on_progress, on_progress_snapshot, on_complete, on_error, open_button,
     info_button, pause_button, cancel_button, restart_button}

\* start_download: the download directory is read from the configuration
read_download_dir == Alone("config")
\* total_bytes stored with the task locked while the records are held
store_total_bytes_locking_task ==
    <<Lock("records"), Lock("task"), Unlock("task"), Unlock("records")>>

\* start_download storing total_bytes of the HEAD response
store_total_bytes == Alone("records")
\* the cancellation test after the join, in the sequential loop, and the
\* stores of file_path
engine_task == Alone("task")

EnginePrograms == {read_download_dir, store_total_bytes, engine_task}

\* download_chunk_parallel: one turn of the stream loop, without and with
\* the 200 ms progress report
worker_turn == Alone("task") \o Alone("file") \o Alone("progress")
                   \o Alone("last_update")
worker_turn_report ==
    Alone("task") \o Alone("file") \o Alone("progress")
        \o <<Lock("last_update"), Lock("progress"), Lock("last_downloaded"),
             Unlock("last_downloaded"), Unlock("progress"),
             Unlock("last_update")>>

WorkerPrograms == {worker_turn, worker_turn_report}

ProgramsOf(t) ==
    IF t = MainThread THEN MainPrograms
    ELSE IF t = EngineThread THEN EnginePrograms
    ELSE WorkerPrograms

IdleThread == [prog |-> <<>>, at |-> 1]

NoLocks == [held |-> [l \in LockNames |-> Nobody],
            thread |-> [t \in Threads |-> IdleThread]]

\* SpecCalc: the inputs of the mode selection and its result, the segments
\* of the partition
NoCalc ==
    [n |-> 0, supports_range |-> FALSE, is_resume |-> FALSE,
     mode |-> "none", done |-> FALSE, segments |-> <<>>, chunks |-> 0]

IdleUi == [pc |-> "idle", todo |-> <<>>]

\* the records mutex is held by the main thread while it saves and by an
\* engine while it stores total_bytes
LockFreeAlways == TRUE

LockFree ==
    /\ ui.pc = "idle"
    /\ \A r \in RunIds : runs[r].pc # "probe_rename"

UiReady == phase = "up" /\ ui = IdleUi /\ LockFree

----------------------------------------------------------------------------
(* save_downloads, in two steps: the step that calls it writes the         *)
(* temporary file, the next one renames it.  A kill between the two finds  *)
(* the write ended or cut short (Kill).                                    *)

Rename(fs, src, dst) ==
    IF src = dst THEN fs ELSE [fs EXCEPT ![dst] = fs[src], ![src] = Absent]

\* std::fs::write(&temp_path, json)
SaveWrite(recs) == [jfs EXCEPT ![TempPath] = ToJson(recs)]

\* std::fs::rename(&temp_path, &file_path)
UiSaveRename ==
    /\ ui.pc = "rename"
    /\ jfs' = Rename(jfs, TempPath, JournalPath)
    /\ committed' = records
    /\ ui' = [ui EXCEPT !.pc = "idle"]
    /\ UNCHANGED <<phase, records, saved_records, passive, runs,
                   nextRun, inodes, dfs, dialog, kills, faults, scenario, locks, calc,
                   begun>>

\* load_downloads
LoadDownloads ==
    IF jfs[JournalPath].kind = "absent" THEN <<>>
    ELSE FromJson(jfs[JournalPath])

----------------------------------------------------------------------------
(* build_ui: startup reconciliation *)

AutoResumePaused(rec) == rec.status = "InProgress"

\* record.status == DownloadStatus::InProgress && !record.was_paused
AutoResume(rec) == rec.status = "InProgress" /\ ~rec.was_paused

RECURSIVE ToResume(_)
ToResume(recs) ==
    IF recs = <<>> THEN <<>>
    ELSE IF AutoResume(Head(recs))
         THEN <<Head(recs).url>> \o ToResume(Tail(recs))
         ELSE ToResume(Tail(recs))

RECURSIVE RetainAll(_, _)
\* for url in &to_resume { records.retain(|r| &r.url != url) }
RetainAll(recs, urls) ==
    IF urls = <<>> THEN recs
    ELSE RetainAll(Retain(recs, Head(urls)), Tail(urls))

AddOp(u, rm) == [op |-> "add", url |-> u, rmpart |-> rm, run |-> 0]
StartOp(r) == [op |-> "start", url |-> <<>>, rmpart |-> FALSE, run |-> r]
BootedOp == [op |-> "booted", url |-> <<>>, rmpart |-> FALSE, run |-> 0]

PassiveRow(rec) == [url |-> rec.url, filename |-> rec.filename, status |-> rec.status]

Startup ==
    /\ phase = "down"
    /\ LET loaded == LoadDownloads
           to_resume == ToResume(loaded)
       IN /\ nextRun + Len(to_resume) <= scenario.runs
          /\ saved_records' = loaded
          /\ passive' = {PassiveRow(loaded[i]) :
                            i \in {j \in 1..Len(loaded) : ~AutoResume(loaded[j])}}
          /\ IF to_resume = <<>>
             THEN /\ records' = loaded
                  /\ phase' = "up"
                  /\ ui' = IdleUi
                  /\ jfs' = jfs /\ begun' = begun
             ELSE /\ records' = RetainAll(loaded, to_resume)
                  /\ phase' = "starting"
                  /\ jfs' = SaveWrite(records') /\ begun' = records'
                  /\ ui' = [pc |-> "rename",
                            todo |-> [i \in 1..Len(to_resume) |-> AddOp(to_resume[i], FALSE)]
                                     \o <<BootedOp>>]
    /\ UNCHANGED <<committed, runs, nextRun, inodes, dfs, dialog, kills,
                   faults, scenario, locks, calc>>

\* build_ui returns
UiBooted ==
    /\ ui.pc = "idle" /\ ui.todo # <<>> /\ Head(ui.todo).op = "booted"
    /\ phase' = "up"
    /\ ui' = [ui EXCEPT !.todo = Tail(ui.todo)]
    /\ UNCHANGED <<jfs, committed, records, saved_records, passive, runs,
                   nextRun, inodes, dfs, dialog, kills, faults, scenario, locks, calc,
                   begun>>

----------------------------------------------------------------------------
(* add_download *)

\* the restart handlers: if temp_path.exists() { remove_file(&temp_path) }
RemovePart(fs, name, rm) ==
    IF rm THEN [fs EXCEPT ![PartPath(name)] = 0] ELSE fs

\* "Salva registro inicial como InProgress (ou atualiza existente)"
WithInitialRecord(recs, u, now) ==
    LET i == Find(recs, u)
    IN IF i > 0
       THEN [recs EXCEPT ![i].status = "InProgress",
                         ![i].date_completed = None,
                         ![i].was_paused = FALSE]
       ELSE Append(recs, NewRecord(u, now))

\* add_download up to its save_downloads call, after the restart handler's
\* removal of the .part file when it is the second half of a restart
UiAdd ==
    /\ ui.pc = "idle" /\ ui.todo # <<>> /\ Head(ui.todo).op = "add"
    /\ LockFree
    /\ nextRun < scenario.runs
    /\ LET op == Head(ui.todo)
           r == nextRun + 1
       IN /\ nextRun' = r
          /\ runs' = [runs EXCEPT ![r] = NewRun(op.url)]
          /\ records' = WithInitialRecord(records, op.url, r)
          /\ dfs' = RemovePart(dfs, Filename(op.url), op.rmpart)
          /\ inodes' = Collect(inodes, dfs', runs')
          /\ jfs' = SaveWrite(records') /\ begun' = records'
          /\ ui' = [pc |-> "rename", todo |-> <<StartOp(r)>> \o Tail(ui.todo)]
    /\ UNCHANGED <<phase, committed, saved_records, passive, dialog, kills,
                   faults, scenario, locks, calc>>

\* add_download: start_download spawns the engine thread
UiStartUnsaved ==
    /\ ui.todo # <<>> /\ Head(ui.todo).op = "start"
    /\ runs' = [runs EXCEPT ![Head(ui.todo).run].pc = "head"]
    /\ ui' = [ui EXCEPT !.todo = Tail(ui.todo)]
    /\ UNCHANGED <<phase, jfs, committed, records, saved_records, passive,
                   nextRun, inodes, dfs, dialog, kills, faults, scenario, locks, calc,
                   begun>>

UiStart ==
    /\ ui.pc = "idle" /\ ui.todo # <<>> /\ Head(ui.todo).op = "start"
    /\ runs' = [runs EXCEPT ![Head(ui.todo).run].pc = "head"]
    /\ ui' = [ui EXCEPT !.todo = Tail(ui.todo)]
    /\ UNCHANGED <<phase, jfs, committed, records, saved_records, passive,
                   nextRun, inodes, dfs, dialog, kills, faults, scenario, locks, calc,
                   begun>>

----------------------------------------------------------------------------
(* Commands of the main thread *)

\* the text of the duplicate warning
StatusText(rec) ==
    IF rec.status = "InProgress"
    THEN (IF rec.was_paused THEN "pausado" ELSE "em progresso")
    ELSE IF rec.status = "Completed" THEN "concluido"
    ELSE IF rec.status = "Failed" THEN "com falha"
    ELSE "cancelado"

\* record.date_added.format("%d/%m/%Y às %H:%M"): the date to the minute;
\* the clock of the model has two ticks in a minute
FormatDate(t) == (t + 1) \div 2

EnqueueUnchecked(u) ==
    /\ UiReady
    /\ u \in scenario.catalog
    /\ nextRun < scenario.runs
    /\ ui' = [ui EXCEPT !.todo = <<AddOp(u, FALSE)>>]
    /\ UNCHANGED <<phase, jfs, committed, records, saved_records, passive, runs,
                   nextRun, inodes, dfs, dialog, kills, faults, scenario, locks, calc,
                   begun>>

\* build_ui, response of the add dialog, for a url not in the list
Enqueue(u) ==
    /\ UiReady
    /\ u \in scenario.catalog
    /\ Find(records, u) = 0
    /\ nextRun < scenario.runs
    /\ ui' = [ui EXCEPT !.todo = <<AddOp(u, FALSE)>>]
    /\ UNCHANGED <<phase, jfs, committed, records, saved_records, passive, runs,
                   nextRun, inodes, dfs, dialog, kills, faults, scenario, locks, calc,
                   begun>>

\* build_ui, response of the add dialog, for a url in the list
EnqueueDuplicate(u) ==
    /\ UiReady
    /\ u \in scenario.catalog
    /\ "again" \in scenario.clicks
    /\ Find(records, u) > 0
    /\ LET rec == records[Find(records, u)]
       IN dialog' = Some([url |-> u,
                          filename |-> rec.filename,
                          status |-> StatusText(rec),
                          date_added |-> FormatDate(rec.date_added)])
    /\ UNCHANGED <<phase, jfs, committed, records, saved_records, passive, ui,
                   runs, nextRun, inodes, dfs, kills, faults, scenario, locks, calc,
                   begun>>

\* if let Some(record) = records.iter_mut().find(|r| r.url == url) { ... }:
\* updated[i] is records[i] after the update
UpdateOrPush(recs, url, updated) ==
    LET i == Find(recs, url)
    IN IF i > 0 THEN [recs EXCEPT ![i] = updated[i]]
       ELSE Append(recs, NewRecord(url, 0))

Update(recs, url, updated) ==
    LET i == Find(recs, url)
    IN IF i > 0 THEN [recs EXCEPT ![i] = updated[i]] ELSE recs

\* add_download, pause_btn handler
Pause(r) ==
    /\ UiReady
    /\ "row" \in scenario.clicks
    /\ Shows(r, "pause")
    /\ LET is_paused == ~runs[r].paused
           Set(rec) == [rec EXCEPT !.was_paused = is_paused]
       IN /\ runs' = [runs EXCEPT ![r].paused = is_paused]
          /\ records' = Update(records, runs[r].url,
                                  [i \in DOMAIN records |-> Set(records[i])])
    /\ jfs' = SaveWrite(records') /\ begun' = records'
    /\ ui' = [ui EXCEPT !.pc = "rename"]
    /\ UNCHANGED <<phase, committed, saved_records, passive, nextRun, inodes,
                   dfs, dialog, kills, faults, scenario, locks, calc>>

CancelUndated(r) ==
    /\ UiReady
    /\ "row" \in scenario.clicks
    /\ Shows(r, "cancel")
    /\ LET Set(rec) == [rec EXCEPT !.status = "Cancelled"]
       IN records' = Update(records, runs[r].url,
                                  [i \in DOMAIN records |-> Set(records[i])])
    /\ runs' = [runs EXCEPT ![r].cancelled = TRUE,
                            ![r].btn = {"restart", "delete"}]
    /\ jfs' = SaveWrite(records') /\ begun' = records'
    /\ ui' = [ui EXCEPT !.pc = "rename"]
    /\ UNCHANGED <<phase, committed, saved_records, passive, nextRun, inodes,
                   dfs, dialog, kills, faults, scenario, locks, calc>>

\* add_download, cancel_btn handler
Cancel(r) ==
    /\ UiReady
    /\ "row" \in scenario.clicks
    /\ Shows(r, "cancel")
    /\ LET Set(rec) == [rec EXCEPT !.status = "Cancelled",
                                   !.date_completed = Some(nextRun)]
       IN records' = Update(records, runs[r].url,
                                  [i \in DOMAIN records |-> Set(records[i])])
    /\ runs' = [runs EXCEPT ![r].cancelled = TRUE,
                            ![r].btn = {"restart", "delete"}]
    /\ jfs' = SaveWrite(records') /\ begun' = records'
    /\ ui' = [ui EXCEPT !.pc = "rename"]
    /\ UNCHANGED <<phase, committed, saved_records, passive, nextRun, inodes,
                   dfs, dialog, kills, faults, scenario, locks, calc>>

\* add_download, restart_btn handler of a cancelled row
RestartRow(r) ==
    /\ UiReady
    /\ "row" \in scenario.clicks
    /\ Shows(r, "restart")
    /\ nextRun < scenario.runs
    /\ runs' = [runs EXCEPT ![r].row = FALSE]
    /\ records' = Retain(records, runs[r].url)
    /\ jfs' = SaveWrite(records') /\ begun' = records'
    /\ ui' = [pc |-> "rename", todo |-> <<AddOp(runs[r].url, TRUE)>>]
    /\ UNCHANGED <<phase, committed, saved_records, passive, nextRun, inodes,
                   dfs, dialog, kills, faults, scenario, locks, calc>>

\* add_download, delete_btn handler
DeleteRow(r) ==
    /\ UiReady
    /\ scenario.clicks \cap {"row", "delete"} # {}
    /\ Shows(r, "delete")
    /\ Find(records, runs[r].url) > 0
    /\ runs' = [runs EXCEPT ![r].row = FALSE]
    /\ records' = Retain(records, runs[r].url)
    /\ jfs' = SaveWrite(records') /\ begun' = records'
    /\ ui' = [ui EXCEPT !.pc = "rename"]
    /\ UNCHANGED <<phase, committed, saved_records, passive, nextRun, inodes,
                   dfs, dialog, kills, faults, scenario, locks, calc>>

\* add_completed_download, resume_btn handler (rows of InProgress records)
ResumePassive(row) ==
    /\ UiReady
    /\ "row" \in scenario.clicks
    /\ row \in passive /\ row.status = "InProgress"
    /\ nextRun < scenario.runs
    /\ passive' = passive \ {row}
    /\ records' = Retain(records, row.url)
    /\ jfs' = SaveWrite(records') /\ begun' = records'
    /\ ui' = [pc |-> "rename", todo |-> <<AddOp(row.url, FALSE)>>]
    /\ UNCHANGED <<phase, committed, saved_records, runs, nextRun, inodes,
                   dfs, dialog, kills, faults, scenario, locks, calc>>

\* add_completed_download, restart_btn handler (rows of Cancelled records)
RestartPassive(row) ==
    /\ UiReady
    /\ "row" \in scenario.clicks
    /\ row \in passive /\ row.status = "Cancelled"
    /\ nextRun < scenario.runs
    /\ passive' = passive \ {row}
    /\ records' = Retain(records, row.url)
    /\ jfs' = SaveWrite(records') /\ begun' = records'
    /\ ui' = [pc |-> "rename", todo |-> <<AddOp(row.url, TRUE)>>]
    /\ UNCHANGED <<phase, committed, saved_records, runs, nextRun, inodes,
                   dfs, dialog, kills, faults, scenario, locks, calc>>

\* add_completed_download, delete_btn handler
DeletePassive(row) ==
    /\ UiReady
    /\ "row" \in scenario.clicks
    /\ row \in passive
    /\ Find(records, row.url) > 0
    /\ passive' = passive \ {row}
    /\ records' = Retain(records, row.url)
    /\ jfs' = SaveWrite(records') /\ begun' = records'
    /\ ui' = [ui EXCEPT !.pc = "rename"]
    /\ UNCHANGED <<phase, committed, saved_records, runs, nextRun, inodes,
                   dfs, dialog, kills, faults, scenario, locks, calc>>

----------------------------------------------------------------------------
(* add_download: the receiver of a run's channel, on the main thread *)

Progress(num, den, par) ==
    [type |-> "Progress", num |-> num, den |-> den, par |-> par, reason |-> ""]
Complete ==
    [type |-> "Complete", num |-> 0, den |-> 0, par |-> FALSE, reason |-> ""]
Error(reason) ==
    [type |-> "Error", num |-> 0, den |-> 0, par |-> FALSE, reason |-> reason]

\* err.contains("Cancelado")
IsCancelText(reason) == reason = "Cancelado"

\* (progress * record.total_bytes as f64) as u64, progress = num / den
Scaled(num, den, total_bytes) ==
    ((num \div Block) * (total_bytes \div Block) * Block) \div (den \div Block)

\* Progress; snapshot is last_save.elapsed().as_secs() >= 5
OnProgress(r, msg, snapshot) ==
    /\ runs' = [runs EXCEPT ![r].chan = Tail(@)]
    /\ IF snapshot
       THEN LET Set(rec) ==
                    [rec EXCEPT !.was_paused = runs[r].paused,
                                !.downloaded_bytes =
                                    IF rec.total_bytes > 0 /\ msg.den > 0
                                    THEN Scaled(msg.num, msg.den, rec.total_bytes)
                                    ELSE IF rec.total_bytes > 0 THEN 0
                                    ELSE rec.downloaded_bytes]
            IN /\ records' = Update(records, runs[r].url,
                                  [i \in DOMAIN records |-> Set(records[i])])
               /\ jfs' = SaveWrite(records') /\ begun' = records'
               /\ ui' = [ui EXCEPT !.pc = "rename"]
       ELSE UNCHANGED <<records, jfs, ui, begun>>

\* Complete
OnComplete(r) ==
    LET Set(rec) ==
            [rec EXCEPT !.status = "Completed",
                        !.file_path = runs[r].file_path,
                        !.date_completed = Some(nextRun),
                        !.downloaded_bytes = rec.total_bytes]
    IN /\ runs' = [runs EXCEPT ![r].chan = Tail(@), ![r].rx = "ended",
                               ![r].btn = (@ \ {"pause", "cancel"}) \cup {"delete"}]
       /\ records' = Update(records, runs[r].url,
                                  [i \in DOMAIN records |-> Set(records[i])])
       /\ jfs' = SaveWrite(records') /\ begun' = records'
       /\ ui' = [ui EXCEPT !.pc = "rename"]

OnErrorIgnored(r, msg) ==
    /\ runs' = [runs EXCEPT ![r].chan = Tail(@), ![r].rx = "ended"]
    /\ UNCHANGED <<records, jfs, ui, begun>>

\* Error(err)
OnError(r, msg) ==
    LET status == IF IsCancelText(msg.reason) THEN "Cancelled" ELSE "Failed"
        Set(rec) == [rec EXCEPT !.status = status,
                                !.date_completed = Some(nextRun)]
    IN /\ runs' = [runs EXCEPT ![r].chan = Tail(@), ![r].rx = "ended",
                               ![r].btn = (@ \ {"pause", "cancel"}) \cup {"delete"}]
       /\ records' = Update(records, runs[r].url,
                                  [i \in DOMAIN records |-> Set(records[i])])
       /\ jfs' = SaveWrite(records') /\ begun' = records'
       /\ ui' = [ui EXCEPT !.pc = "rename"]

\* while let Ok(msg) = msg_rx.recv().await
Receive(r) ==
    /\ UiReady
    /\ runs[r].rx = "live"
    /\ runs[r].chan # <<>>
    /\ LET msg == Head(runs[r].chan)
       IN IF msg.type = "Progress"
          THEN \E snapshot \in BOOLEAN : OnProgress(r, msg, snapshot)
          ELSE IF msg.type = "Complete" THEN OnComplete(r)
          ELSE OnError(r, msg)
    /\ UNCHANGED <<phase, committed, saved_records, passive, nextRun, inodes,
                   dfs, dialog, kills, faults, scenario, locks, calc>>

----------------------------------------------------------------------------
(* HTTP *)

\* the response to GET url with Range: bytes=s-e (ranged) or without Range:
\* its status and the bytes [from, to) of its body
ServerGet(u, ranged, s, e) ==
    LET res == Resource(u)
    IN IF ~ranged \/ ~res.ranges
       THEN [status |-> 200, from |-> 0, to |-> res.len]
       ELSE IF s >= res.len
       THEN [status |-> 416, from |-> 0, to |-> 0]
       ELSE [status |-> 206, from |-> s,
             to |-> IF e + 1 < res.len THEN e + 1 ELSE res.len]

\* the end of an open-ended range bytes=s-
OpenEnd(u) == Resource(u).len - 1

\* response.status().is_success() || status == PARTIAL_CONTENT
Accepted(status) == status >= 200 /\ status < 300

\* what the network does to one request attempt
Outcomes == {"ok", "recoverable", "fatal", "status", "nocontent"}
\* the attempts that retry_request ends with Ok(response): the response of
\* the resource, a 500 with no body, a 204 with no body
Responses == {"ok", "status", "nocontent"}
\* the response that is not the one of the resource
Refusal(o) == [status |-> IF o = "status" THEN 500 ELSE 204, from |-> 0, to |-> 0]
\* what the network does to one chunk of a body
ChunkOutcomes == {"ok", "broken"}

\* the network fails at most MaxFaults times in a behaviour
MayFail(o) == o # "ok" => faults < scenario.faults
Count(o) == IF o = "ok" THEN faults ELSE faults + 1

RetryAgainOnce(a) == a + 1 < MAX_RETRIES - 1

\* retry_request after a recoverable error of attempt a (from 0): TRUE when
\* another attempt follows (after a sleep of delay_secs * 2^a seconds)
RetryAgain(a) == a + 1 < MAX_RETRIES

DelayConstant(attempt) == RETRY_DELAY_SECS

\* let delay = delay_secs * (1 << attempt)
Delay(attempt) == RETRY_DELAY_SECS * (2 ^ attempt)

\* Err(e) of retry_request: the error of the attempt that was the last,
\* with the number of that attempt and the sleeps of the call
Failure(o, attempt, slept) == [kind |-> o, attempt |-> attempt, slept |-> slept]

\* tx.send(msg); the channel is unbounded
Send(run, msg) == [run EXCEPT !.chan = Append(@, msg)]

Last(seq) == seq[Len(seq)]

\* the engine thread ends: its locals are gone
DoneCleared(run) ==
    [run EXCEPT !.pc = "done",
                !.ended = IF Last(run.chan).type = "Complete" THEN "Complete"
                          ELSE Last(run.chan).reason,
                !.attempt = 0, !.total_size = 0,
                !.supports_range = FALSE, !.downloaded = 0, !.fh = 0,
                !.from = 0, !.to = 0, !.frame = 0, !.status = 0,
                !.append = FALSE, !.passed = FALSE, !.workers = <<>>,
                !.slept = <<>>, !.file_guard = 0, !.cursor = 0,
                !.cancelled = FALSE]

Done(run) ==
    [run EXCEPT !.pc = "done",
                !.ended = IF Last(run.chan).type = "Complete" THEN "Complete"
                          ELSE Last(run.chan).reason,
                !.attempt = 0, !.total_size = 0,
                !.supports_range = FALSE, !.downloaded = 0, !.fh = 0,
                !.from = 0, !.to = 0, !.frame = 0, !.status = 0,
                !.append = FALSE, !.passed = FALSE, !.workers = <<>>,
                !.slept = <<>>, !.file_guard = 0, !.cursor = 0]

\* a Progress message is sent when 200 ms have passed since the last one;
\* the model lets at most MaxQueue of them wait in a channel
MayEmit(run, emit) ==
    emit => Cardinality({i \in 1..Len(run.chan) : run.chan[i].type = "Progress"}) < scenario.queue

----------------------------------------------------------------------------
(* start_download: the probe *)

\* retry_request(|| client.head(&url).send(), ...), one attempt
HeadAttempt(r) ==
    /\ runs[r].pc = "head"
    /\ \E o \in Outcomes :
        /\ MayFail(o)
        /\ faults' = Count(o)
        /\ LET run == [runs[r] EXCEPT !.faulted = @ \/ o # "ok"]
               res == Resource(run.url)
               size == IF o = "ok" /\ res.has_length THEN res.len ELSE 0
               supports == o = "ok" /\ res.ranges
           IN runs' = [runs EXCEPT ![r] =
                CASE o \in Responses ->
                        [run EXCEPT !.total_size = size,
                                    !.supports_range = supports,
                                    !.attempt = 0, !.slept = <<>>,
                                    !.head_status = IF o = "ok" THEN 200
                                                    ELSE Refusal(o).status,
                                    !.pc = IF size > 0 THEN "probe" ELSE "mode"]
                  [] o = "recoverable" /\ RetryAgain(run.attempt) ->
                        [run EXCEPT !.attempt = @ + 1,
                                    !.slept = Append(@, Delay(run.attempt))]
                  [] OTHER ->
                        Done(Send([run EXCEPT !.failure =
                                        Failure(o, run.attempt, run.slept)],
                                  Error("Erro ao obter info")))]
    /\ UNCHANGED <<phase, jfs, committed, records, saved_records, passive, ui,
                   nextRun, inodes, dfs, dialog, kills, scenario, locks, calc, begun>>

\* "Atualiza total_bytes no registro quando disponivel"
ProbeUpdate(r) ==
    /\ runs[r].pc = "probe"
    /\ LockFree
    /\ IF Find(records, runs[r].url) > 0
       THEN LET Set(rec) == [rec EXCEPT !.total_bytes = runs[r].total_size]
            IN /\ records' = Update(records, runs[r].url,
                                  [i \in DOMAIN records |-> Set(records[i])])
               /\ jfs' = SaveWrite(records') /\ begun' = records'
               /\ runs' = [runs EXCEPT ![r].pc = "probe_rename"]
       ELSE /\ runs' = [runs EXCEPT ![r].pc = "mode"]
            /\ UNCHANGED <<records, jfs, begun>>
    /\ UNCHANGED <<phase, committed, saved_records, passive, ui, nextRun,
                   inodes, dfs, dialog, kills, faults, scenario, locks, calc>>

ProbeSaveRename(r) ==
    /\ runs[r].pc = "probe_rename"
    /\ jfs' = Rename(jfs, TempPath, JournalPath)
    /\ committed' = records
    /\ runs' = [runs EXCEPT ![r].pc = "mode"]
    /\ UNCHANGED <<phase, records, saved_records, passive, ui,
                   nextRun, inodes, dfs, dialog, kills, faults, scenario, locks, calc,
                   begun>>

----------------------------------------------------------------------------
(* start_download: mode selection *)

UseSequentialNoResume(supports_range, total_size, is_resume) ==
    ~supports_range \/ total_size = 0 \/ total_size < MiB

\* !supports_range || total_size == 0 || total_size < 1024 * 1024 || is_resume
UseSequential(supports_range, total_size, is_resume) ==
    ~supports_range \/ total_size = 0 \/ total_size < MiB \/ is_resume

ModeSelect(r) ==
    /\ runs[r].pc = "mode"
    /\ LET is_resume == Exists(PartPath(Filename(runs[r].url)))
       IN runs' = [runs EXCEPT
                ![r].is_resume = is_resume,
                ![r].mode = IF UseSequential(runs[r].supports_range,
                                             runs[r].total_size, is_resume)
                            THEN "seq" ELSE "par",
                ![r].pc = IF UseSequential(runs[r].supports_range,
                                           runs[r].total_size, is_resume)
                          THEN "seq_open" ELSE "par_create"]
    /\ UNCHANGED <<phase, jfs, committed, records, saved_records, passive, ui,
                   nextRun, inodes, dfs, dialog, kills, faults, scenario, locks, calc,
                   begun>>

----------------------------------------------------------------------------
(* download_sequential *)

Min(a, b) == IF a < b THEN a ELSE b
Max(a, b) == IF a > b THEN a ELSE b

\* the bytes of one chunk of a body of which [from, to) remain: the body
\* arrives whole or in chunks of frame bytes
ChunkLens(frame, from, to) == {Min(frame, to - from), to - from}

\* half of the body [from, to), in whole blocks
Frame(from, to) == Block * ((((to - from) \div Block) + 1) \div 2)

\* File::create(path): a new file, or the file at path truncated
Create(ino, fs, path, r) ==
    LET i == IF fs[path] # 0 THEN fs[path] ELSE r
    IN [ino |-> [ino EXCEPT ![i] = [live |-> TRUE, cells |-> <<>>]],
        fs |-> [fs EXCEPT ![path] = i],
        fh |-> i]

\* the partial-file size, then OpenOptions::new().append(true).open or
\* File::create
SeqOpen(r) ==
    /\ runs[r].pc = "seq_open"
    /\ LET part == PartPath(Filename(runs[r].url))
           downloaded == IF Exists(part) THEN FileLen(part) ELSE 0
           made == Create(inodes, dfs, part, r)
       IN IF downloaded > 0
          THEN /\ runs' = [runs EXCEPT ![r].downloaded = downloaded,
                                       ![r].resumed_at = downloaded,
                                       ![r].found = inodes[dfs[part]].cells,
                                       ![r].append = TRUE,
                                       ![r].fh = dfs[part],
                                       ![r].pc = "seq_req"]
               /\ UNCHANGED <<inodes, dfs>>
          ELSE /\ runs' = [runs EXCEPT ![r].downloaded = 0,
                                       ![r].fh = made.fh,
                                       ![r].pc = "seq_req"]
               /\ inodes' = made.ino
               /\ dfs' = made.fs
    /\ UNCHANGED <<phase, jfs, committed, records, saved_records, passive, ui,
                   nextRun, dialog, kills, faults, scenario, locks, calc, begun>>

\* retry_request of the GET, one attempt; then the status check and the
\* initial Progress of a resume
SeqRequest(r) ==
    /\ runs[r].pc = "seq_req"
    /\ \E o \in Outcomes :
        /\ MayFail(o)
        /\ faults' = Count(o)
        /\ LET run == [runs[r] EXCEPT !.faulted = @ \/ o # "ok"]
               resp == IF o # "ok"
                       THEN Refusal(o)
                       ELSE ServerGet(run.url, run.downloaded > 0,
                                      run.downloaded, OpenEnd(run.url))
               streaming == [run EXCEPT !.status = resp.status, !.attempt = 0,
                                        !.slept = <<>>,
                                        !.from = resp.from, !.to = resp.to,
                                        !.frame = Frame(resp.from, resp.to),
                                        !.pc = "seq_stream"]
           IN runs' = [runs EXCEPT ![r] =
                CASE o \in Responses /\ ~Accepted(resp.status) ->
                        Done(Send(run, Error("Status HTTP")))
                  [] o \in Responses /\ Accepted(resp.status) ->
                        IF run.downloaded > 0 /\ run.total_size > 0
                        THEN Send(streaming, Progress(run.downloaded,
                                                      run.total_size, FALSE))
                        ELSE streaming
                  [] o = "recoverable" /\ RetryAgain(run.attempt) ->
                        [run EXCEPT !.attempt = @ + 1,
                                    !.slept = Append(@, Delay(run.attempt))]
                  [] OTHER ->
                        Done(Send([run EXCEPT !.failure =
                                        Failure(o, run.attempt, run.slept)],
                                  Error("Erro na requisicao")))]
    /\ inodes' = Collect(inodes, dfs, runs')
    /\ UNCHANGED <<phase, jfs, committed, records, saved_records, passive, ui,
                   nextRun, dfs, dialog, kills, scenario, locks, calc, begun>>


SeesCancelNever(run, passed) == FALSE

\* if cancelled { return ... } at the gate of a chunk, unless the gate of
\* this chunk was passed before
SeesCancel(run, passed) == run.cancelled /\ ~passed

\* the gate of a chunk on its own: neither flag is set, the loop breaks, and
\* the thread is preempted before the write
SeqGate(r) ==
    /\ scenario.preempt
    /\ runs[r].pc = "seq_stream"
    /\ runs[r].from < runs[r].to
    /\ ~runs[r].passed
    /\ ~runs[r].cancelled /\ ~runs[r].paused
    /\ runs' = [runs EXCEPT ![r].passed = TRUE]
    /\ UNCHANGED <<phase, jfs, committed, records, saved_records, passive, ui,
                   nextRun, inodes, dfs, dialog, kills, faults, scenario, locks, calc,
                   begun>>

\* one chunk of the stream: the gate if it is not passed yet, then the write
\* and the Progress
StreamErrorRetried(run) ==
    [run EXCEPT !.faulted = TRUE, !.pc = "seq_req", !.from = 0, !.to = 0]

\* Err(e) of a chunk of the sequential stream: Error("Erro ao baixar: ..")
\* and return, no retry here
StreamError(run) ==
    Done(Send([run EXCEPT !.faulted = TRUE], Error("Erro ao baixar")))

SeqChunk(r) ==
    /\ runs[r].pc = "seq_stream"
    /\ runs[r].from < runs[r].to
    /\ LET passed == runs[r].passed
           run == [runs[r] EXCEPT !.passed = FALSE]
           part == PartPath(Filename(run.url))
       IN IF SeesCancel(run, passed)
          THEN /\ dfs' = [dfs EXCEPT ![part] = 0]
               /\ runs' = [runs EXCEPT ![r] = Done(Send(run, Error("Cancelado")))]
               /\ inodes' = Collect(inodes, dfs', runs')
               /\ faults' = faults
          ELSE /\ passed \/ ~run.paused
               /\ \E o \in ChunkOutcomes, n \in ChunkLens(run.frame, run.from, run.to),
                     emit \in BOOLEAN :
                    /\ MayFail(o)
                    /\ faults' = Count(o)
                    /\ o = "broken" => ~emit /\ n = run.to - run.from
                    /\ MayEmit(run, emit)
                    /\ LET data == SourceBlocks(run.url, run.from, run.from + n)
                           at == IF run.append
                                 THEN Len(inodes[run.fh].cells) * Block
                                 ELSE run.downloaded
                           wrote == [run EXCEPT !.downloaded = @ + n,
                                                !.from = @ + n]
                       IN IF o = "broken"
                          THEN /\ runs' = [runs EXCEPT ![r] = StreamError(run)]
                               /\ inodes' = Collect(inodes, dfs, runs')
                          ELSE /\ runs' = [runs EXCEPT ![r] =
                                    IF emit
                                    THEN Send(wrote, Progress(wrote.downloaded,
                                                              run.total_size, FALSE))
                                    ELSE wrote]
                               /\ inodes' = [inodes EXCEPT ![run.fh].cells =
                                                WriteAt(@, at, data)]
               /\ dfs' = dfs
    /\ UNCHANGED <<phase, jfs, committed, records, saved_records, passive, ui,
                   nextRun, dialog, kills, scenario, locks, calc, begun>>

\* std::fs::rename(temp_path, file_path)
RenameFile(fs, src, dst) == [fs EXCEPT ![dst] = fs[src], ![src] = 0]

\* "Download completo - renomeia arquivo": rename, task.file_path, Complete
SetFilePathSkipped(run, path) == run

\* task.file_path = Some(file_path.clone())
SetFilePath(run, path) == [run EXCEPT !.file_path = Some(path)]

Finalize(r, run) ==
    LET name == Filename(run.url)
    IN IF Exists(PartPath(name))
       THEN /\ dfs' = RenameFile(dfs, PartPath(name), FinalPath(name))
            /\ runs' = [runs EXCEPT ![r] =
                    Done(Send([SetFilePath(run, FinalPath(name)) EXCEPT
                                          !.product = inodes[dfs[PartPath(name)]].cells],
                              Complete))]
       ELSE /\ dfs' = dfs
            /\ runs' = [runs EXCEPT ![r] = Done(Send(run, Error("Erro ao finalizar")))]

\* the stream has ended
SeqFinish(r) ==
    /\ runs[r].pc = "seq_stream"
    /\ runs[r].from = runs[r].to
    /\ Finalize(r, runs[r])
    /\ inodes' = Collect(inodes, dfs', runs')
    /\ UNCHANGED <<phase, jfs, committed, records, saved_records, passive, ui,
                   nextRun, dialog, kills, faults, scenario, locks, calc, begun>>

----------------------------------------------------------------------------
(* start_download: parallel mode *)

calculate_suggested_chunks(file_size) ==
    IF file_size < 10 * 1024 * 1024 THEN 2
    ELSE IF file_size < 100 * 1024 * 1024 THEN DEFAULT_NUM_CHUNKS
    ELSE IF file_size < 1024 * 1024 * 1024 THEN 6
    ELSE 8

calculate_swapped_chunks(file_size) ==
    LET max_chunks_by_size == file_size \div MIN_CHUNK_SIZE
        suggested_chunks ==
            IF file_size < 10 * 1024 * 1024 THEN DEFAULT_NUM_CHUNKS
            ELSE IF file_size < 100 * 1024 * 1024 THEN 2
            ELSE IF file_size < 1024 * 1024 * 1024 THEN 6
            ELSE 8
    IN IF suggested_chunks < max_chunks_by_size THEN suggested_chunks
       ELSE IF max_chunks_by_size > 1 THEN max_chunks_by_size ELSE 1

calculate_optimal_chunks(file_size) ==
    LET max_chunks_by_size == file_size \div MIN_CHUNK_SIZE
        suggested_chunks ==
            IF file_size < 10 * 1024 * 1024 THEN 2
            ELSE IF file_size < 100 * 1024 * 1024 THEN DEFAULT_NUM_CHUNKS
            ELSE IF file_size < 1024 * 1024 * 1024 THEN 6
            ELSE 8
    IN Min(suggested_chunks, Max(max_chunks_by_size, 1))

SegmentsEqual(total_size) ==
    LET num_chunks == calculate_optimal_chunks(total_size)
        chunk_size == total_size \div num_chunks
    IN [k \in 1..num_chunks |->
          [start |-> (k - 1) * chunk_size, end |-> k * chunk_size - 1]]

\* the [start, end] of every chunk_id in 0..num_chunks-1, as a sequence
Segments(total_size) ==
    LET num_chunks == calculate_optimal_chunks(total_size)
        chunk_size == total_size \div num_chunks
        last_chunk_size == total_size - (chunk_size * (num_chunks - 1))
    IN [k \in 1..num_chunks |->
          LET start == (k - 1) * chunk_size
          IN [start |-> start,
              end |-> IF k = num_chunks THEN start + last_chunk_size - 1
                      ELSE start + chunk_size - 1]]

\* a tokio task running download_chunk
NewWorker(seg) ==
    [start |-> seg.start, end |-> seg.end, pc |-> "req", attempt |-> 0,
     current_pos |-> seg.start, from |-> 0, to |-> 0, frame |-> 0,
     passed |-> FALSE, slept |-> <<>>, status |-> 0]

\* File::create, set_len(total_size), open for writing, spawn of the tasks
ParCreate(r) ==
    /\ runs[r].pc = "par_create"
    /\ LET part == PartPath(Filename(runs[r].url))
           made == Create(inodes, dfs, part, r)
           segs == Segments(runs[r].total_size)
       IN /\ inodes' = [made.ino EXCEPT ![made.fh].cells =
                            [k \in 1..(runs[r].total_size \div Block) |-> Hole]]
          /\ dfs' = made.fs
          /\ runs' = [runs EXCEPT ![r].fh = made.fh,
                                  ![r].workers = [k \in 1..Len(segs) |-> NewWorker(segs[k])],
                                  ![r].pc = "par_run"]
    /\ UNCHANGED <<phase, jfs, committed, records, saved_records, passive, ui,
                   nextRun, dialog, kills, faults, scenario, locks, calc, begun>>

\* download_chunk: retry_request of the ranged GET, one attempt, and the
\* status check
WorkerRequest(r, w) ==
    /\ runs[r].pc = "par_run"
    /\ w \in DOMAIN runs[r].workers
    /\ runs[r].workers[w].pc = "req"
    /\ \E o \in Outcomes :
        /\ MayFail(o)
        /\ faults' = Count(o)
        /\ LET wk == runs[r].workers[w]
               resp == IF o # "ok"
                       THEN Refusal(o)
                       ELSE ServerGet(runs[r].url, TRUE, wk.start, wk.end)
               failed == o = "fatal" \/ (o = "recoverable" /\ ~RetryAgain(wk.attempt))
           IN runs' = [runs EXCEPT
                ![r].faulted = @ \/ o # "ok",
                ![r].failure = IF failed THEN Failure(o, wk.attempt, wk.slept)
                               ELSE @,
                ![r].workers[w] =
                    CASE o \in Responses /\ ~Accepted(resp.status) ->
                            [wk EXCEPT !.pc = "err", !.attempt = 0, !.slept = <<>>]
                      [] o \in Responses /\ Accepted(resp.status) ->
                            [wk EXCEPT !.pc = "stream", !.attempt = 0,
                                       !.slept = <<>>, !.status = resp.status,
                                       !.from = resp.from, !.to = resp.to,
                                       !.frame = Frame(resp.from, resp.to)]
                      [] o = "recoverable" /\ RetryAgain(wk.attempt) ->
                            [wk EXCEPT !.attempt = @ + 1,
                                       !.slept = Append(@, Delay(wk.attempt))]
                      [] OTHER -> [wk EXCEPT !.pc = "err", !.attempt = 0,
                                             !.slept = <<>>]]
    /\ UNCHANGED <<phase, jfs, committed, records, saved_records, passive, ui,
                   nextRun, inodes, dfs, dialog, kills, scenario, locks, calc, begun>>

RECURSIVE SumProgress(_)
\* progress_guard.iter().sum(), progress[chunk_id] = current_pos - start
SumProgress(ws) ==
    IF ws = <<>> THEN 0
    ELSE (Head(ws).current_pos - Head(ws).start) + SumProgress(Tail(ws))

\* download_chunk: the gate of a chunk on its own: neither flag is set, the
\* loop breaks, and the task is preempted before the write
WorkerGate(r, w) ==
    /\ scenario.preempt
    /\ runs[r].pc = "par_run"
    /\ w \in DOMAIN runs[r].workers
    /\ runs[r].workers[w].pc = "stream"
    /\ runs[r].workers[w].from < runs[r].workers[w].to
    /\ ~runs[r].workers[w].passed
    /\ ~runs[r].cancelled /\ ~runs[r].paused
    /\ runs' = [runs EXCEPT ![r].workers[w].passed = TRUE]
    /\ UNCHANGED <<phase, jfs, committed, records, saved_records, passive, ui,
                   nextRun, inodes, dfs, dialog, kills, faults, scenario, locks, calc,
                   begun>>

\* download_chunk: one chunk of the stream: the gate if it is not passed
\* yet, the seek and write under the file mutex, the counters and the
\* Progress
FileFreeAlways(run) == TRUE

\* file.lock().await returns when no worker holds the guard
FileFree(run) == run.file_guard = 0

\* a worker takes the guard of the file and seeks to its current_pos; its
\* write_all is the step WorkerWrite
WorkerSeek(r, w) ==
    /\ scenario.preempt
    /\ runs[r].pc = "par_run"
    /\ w \in DOMAIN runs[r].workers
    /\ runs[r].workers[w].pc = "stream"
    /\ runs[r].workers[w].from < runs[r].workers[w].to
    /\ runs[r].workers[w].passed \/ (~runs[r].cancelled /\ ~runs[r].paused)
    /\ FileFree(runs[r])
    /\ runs' = [runs EXCEPT ![r].workers[w].passed = FALSE,
                            ![r].workers[w].pc = "write",
                            ![r].file_guard = w,
                            ![r].cursor = runs[r].workers[w].current_pos]
    /\ UNCHANGED <<phase, jfs, committed, records, saved_records, passive, ui,
                   nextRun, inodes, dfs, dialog, kills, faults, scenario, locks, calc,
                   begun>>

\* write_all at the position of the file, the guard is dropped, current_pos
\* and the progress are updated
WorkerWrite(r, w) ==
    /\ runs[r].pc = "par_run"
    /\ w \in DOMAIN runs[r].workers
    /\ runs[r].workers[w].pc = "write"
    /\ LET run == runs[r]
           wk == run.workers[w]
       IN \E n \in ChunkLens(wk.frame, wk.from, wk.to), emit \in BOOLEAN :
            /\ MayEmit(run, emit)
            /\ LET data == SourceBlocks(run.url, wk.from, wk.from + n)
                   wrote == [run EXCEPT
                                !.workers[w].current_pos = @ + n,
                                !.workers[w].from = @ + n,
                                !.workers[w].pc = "stream",
                                !.file_guard = IF @ = w THEN 0 ELSE @,
                                !.cursor = 0]
               IN /\ runs' = [runs EXCEPT ![r] =
                        IF emit
                        THEN Send(wrote, Progress(SumProgress(wrote.workers),
                                                  run.total_size, TRUE))
                        ELSE wrote]
                  /\ inodes' = [inodes EXCEPT ![run.fh].cells =
                                   WriteAt(@, run.cursor, data)]
    /\ UNCHANGED <<phase, jfs, committed, records, saved_records, passive, ui,
                   nextRun, dfs, dialog, kills, faults, scenario, locks, calc, begun>>

WorkerChunk(r, w) ==
    /\ runs[r].pc = "par_run"
    /\ w \in DOMAIN runs[r].workers
    /\ runs[r].workers[w].pc = "stream"
    /\ runs[r].workers[w].from < runs[r].workers[w].to
    /\ LET passed == runs[r].workers[w].passed
           run == [runs[r] EXCEPT !.workers[w].passed = FALSE]
           wk == run.workers[w]
       IN IF SeesCancel(run, passed)
          THEN /\ runs' = [runs EXCEPT ![r].workers[w].pc = "err"]
               /\ UNCHANGED <<inodes, faults>>
          ELSE /\ passed \/ ~run.paused
               /\ \E o \in ChunkOutcomes, n \in ChunkLens(wk.frame, wk.from, wk.to),
                     emit \in BOOLEAN :
                    /\ MayFail(o)
                    /\ faults' = Count(o)
                    /\ o = "broken" => ~emit /\ n = wk.to - wk.from
                    /\ MayEmit(run, emit)
                    /\ LET data == SourceBlocks(run.url, wk.from, wk.from + n)
                           wrote == [run EXCEPT
                                        !.workers[w].current_pos = @ + n,
                                        !.workers[w].from = @ + n]
                       IN IF o = "broken"
                          THEN /\ runs' = [runs EXCEPT ![r].faulted = TRUE,
                                                       ![r].workers[w].passed = FALSE,
                                                       ![r].workers[w].pc = "err"]
                               /\ inodes' = inodes
                          ELSE /\ FileFree(run)
                               /\ runs' = [runs EXCEPT ![r] =
                                    IF emit
                                    THEN Send(wrote, Progress(SumProgress(wrote.workers),
                                                              run.total_size, TRUE))
                                    ELSE wrote]
                               /\ inodes' = [inodes EXCEPT ![run.fh].cells =
                                                WriteAt(@, wk.current_pos, data)]
    /\ UNCHANGED <<phase, jfs, committed, records, saved_records, passive, ui,
                   nextRun, dfs, dialog, kills, scenario, locks, calc, begun>>

\* download_chunk: the stream has ended, Ok(())
WorkerEnd(r, w) ==
    /\ runs[r].pc = "par_run"
    /\ w \in DOMAIN runs[r].workers
    /\ runs[r].workers[w].pc = "stream"
    /\ runs[r].workers[w].from = runs[r].workers[w].to
    /\ runs' = [runs EXCEPT ![r].workers[w].pc = "ok"]
    /\ UNCHANGED <<phase, jfs, committed, records, saved_records, passive, ui,
                   nextRun, inodes, dfs, dialog, kills, faults, scenario, locks, calc,
                   begun>>

AllSuccessAny(workers) == TRUE

\* all_success after the loop over the handles: every task returned Ok(Ok(_))
AllSuccess(workers) == \A w \in DOMAIN workers : workers[w].pc = "ok"

\* all handles awaited: the cancel check, all_success, the finalization
CancelledUnlessSuccess(run) == run.cancelled /\ ~AllSuccess(run.workers)

\* if task.cancelled, after the workers were awaited and before all_success
\* is looked at
CancelledAfterJoin(run) == run.cancelled

\* the first handle alone is awaited
AwaitedFirst(run) ==
    run.workers # <<>> => run.workers[1].pc \in {"ok", "err"}

\* for handle in handles { handle.await }: every worker has returned
Awaited(run) ==
    \A w \in DOMAIN run.workers : run.workers[w].pc \in {"ok", "err"}

ParJoin(r) ==
    /\ runs[r].pc = "par_run"
    /\ Awaited(runs[r])
    /\ LET run == runs[r]
           part == PartPath(Filename(run.url))
           all_success == AllSuccess(run.workers)
       IN IF CancelledAfterJoin(run)
          THEN /\ dfs' = [dfs EXCEPT ![part] = 0]
               /\ runs' = [runs EXCEPT ![r] = Done(Send(run, Error("Cancelado")))]
          ELSE IF ~all_success
          THEN /\ dfs' = dfs
               /\ runs' = [runs EXCEPT ![r] = Done(Send(run, Error("Erro ao baixar chunks")))]
          ELSE Finalize(r, run)
    /\ inodes' = Collect(inodes, dfs', runs')
    /\ UNCHANGED <<phase, jfs, committed, records, saved_records, passive, ui,
                   nextRun, dialog, kills, faults, scenario, locks, calc, begun>>

----------------------------------------------------------------------------
(* The process is killed: memory is lost, the files stay *)

Kill ==
    /\ phase # "down"
    /\ kills < scenario.kills
    /\ kills' = kills + 1
    /\ phase' = "down"
    /\ records' = <<>>
    /\ saved_records' = <<>>
    /\ passive' = {}
    /\ ui' = IdleUi
    /\ runs' = [r \in RunIds |-> NoRun]
    /\ inodes' = Collect(inodes, dfs, runs')
    /\ dialog' = None
    /\ \E cut \in BOOLEAN :
         /\ cut => ~LockFree
         /\ jfs' = IF cut THEN [jfs EXCEPT ![TempPath] = Partial] ELSE jfs
    /\ UNCHANGED <<committed, nextRun, dfs, faults, scenario, locks, calc, begun>>

----------------------------------------------------------------------------

\* What the user and the environment do in one behaviour: the urls the
\* user enqueues, how many add_download calls, process kills, network
\* failures and waiting Progress messages there are at most, the journal
\* and the files an earlier process left, what the user clicks: the
\* buttons of the rows ("row"), the delete button alone ("delete"), the
\* add dialog for a url that is in the list ("again"), and whether an
\* engine thread is preempted between the gate of a chunk and its write.
Scenario(catalog, r, k, f, q, journal, clicks, preempt) ==
    [catalog |-> catalog, runs |-> r, kills |-> k, faults |-> f, queue |-> q,
     journal |-> journal, clicks |-> clicks, preempt |-> preempt]

\* a record as an earlier process saved it, added at time 0
SavedRecord(u, kind) ==
    LET rec == NewRecord(u, 0)
        len == Resource(u).len
    IN CASE kind = "running" -> [rec EXCEPT !.total_bytes = len]
         [] kind = "paused" -> [rec EXCEPT !.total_bytes = len, !.was_paused = TRUE]
         [] kind = "completed" ->
                [rec EXCEPT !.status = "Completed", !.total_bytes = len,
                            !.downloaded_bytes = len,
                            !.file_path = Some(FinalPath(Filename(u))),
                            !.date_completed = Some(0)]
         [] kind = "failed" ->
                [rec EXCEPT !.status = "Failed", !.date_completed = Some(0)]
         [] OTHER ->
                [rec EXCEPT !.status = "Cancelled", !.total_bytes = len,
                            !.date_completed = Some(0)]

SavedKinds == {"running", "paused", "completed", "failed", "cancelled"}

\* the journals of MaxJournal records of different urls and file names
Journals ==
    { [i \in 1..MaxJournal |-> SavedRecord(us[i], ks[i])] :
        us \in { f \in [1..MaxJournal -> {UrlSmall, UrlBig}] :
                    \A i, j \in 1..MaxJournal : i # j => f[i] # f[j] },
        ks \in [1..MaxJournal -> SavedKinds] }

\* the file the download of a saved record left: the path and the blocks.
\* An InProgress record leaves a .part file: the first chunk of a
\* sequential download, or the file of a parallel download at its full
\* length with the first chunk of its first segment; a Completed record
\* leaves the final file.
Leftover(rec) ==
    LET u == rec.url
        len == Resource(u).len
        first == SourceBlocks(u, 0, Frame(0, len))
        seg == Segments(len)[1]
    IN IF rec.status = "InProgress"
       THEN [path |-> PartPath(rec.filename),
             cells |-> IF UseSequential(Resource(u).ranges, len, FALSE)
                       THEN first
                       ELSE WriteAt([k \in 1..(len \div Block) |-> Hole], 0,
                                    SourceBlocks(u, 0, Frame(0, seg.end + 1)))]
       ELSE IF rec.status = "Completed"
       THEN [path |-> FinalPath(rec.filename), cells |-> SourceFile(u)]
       ELSE [path |-> <<>>, cells |-> <<>>]

InodeIds == 1..(MaxRuns + MaxJournal)

Scenarios ==
    { Scenario({UrlSmall}, MaxRuns, 0, 0, MaxQueue, <<>>, {"row"}, FALSE),
      Scenario({UrlSmall}, MaxRuns - 1, 0, MaxFaults, 0, <<>>, {"row"}, FALSE),
      Scenario({UrlSmall}, MaxRuns, MaxKills, 0, 0, <<>>, {"row"}, FALSE),
      Scenario({UrlBig}, MaxRuns - 1, MaxKills, 0, 0, <<>>, {"row"}, FALSE),
      Scenario({UrlSmall, UrlBig}, MaxRuns, MaxKills, 0, 0, <<>>, {"delete"}, FALSE),
      Scenario({UrlBig}, MaxRuns - 1, 0, MaxFaults, MaxQueue, <<>>, {"row"}, FALSE),
      Scenario({UrlSmall, UrlBig}, MaxRuns - 1, 0, 0, MaxQueue, <<>>, {"row"}, TRUE),
      Scenario({UrlSmall, UrlBig}, MaxRuns - 1, 0, MaxTries, 0, <<>>, {}, FALSE),
      Scenario({UrlBig, UrlBig2}, MaxRuns, 0, 0, 0, <<>>, {}, FALSE) }
    \cup { Scenario({UrlSmall, UrlBig}, MaxRuns, 0, 0, 0, journal, {"again"},
                       FALSE) :
              journal \in Journals }

\* the data directory and the download directory an earlier process left
InitFiles ==
    LET journal == scenario.journal
        At(i) == Leftover(journal[i])
    IN /\ jfs = [p \in {JournalPath, TempPathAtomic} |->
                    IF p = JournalPath /\ journal # <<>>
                    THEN ToJson(journal) ELSE Absent]
       /\ committed = journal
       /\ begun = journal
       /\ inodes = [i \in InodeIds |->
                      IF i - MaxRuns \in DOMAIN journal /\ At(i - MaxRuns).path # <<>>
                      THEN [live |-> TRUE, cells |-> At(i - MaxRuns).cells]
                      ELSE NoInode]
       /\ dfs = [p \in Paths |->
                   IF \E i \in DOMAIN journal : At(i).path = p
                   THEN MaxRuns + (CHOOSE i \in DOMAIN journal : At(i).path = p)
                   ELSE 0]

\* the scenarios of the specification with fairness: one download of
\* either resource with a network failure and preemption, two downloads of
\* the small one with a kill, and the journals an earlier process left
ScenariosLive ==
    { Scenario({UrlSmall, UrlBig}, MaxRuns - 1, 0, MaxFaults, MaxQueue, <<>>, {"row"}, TRUE),
      Scenario({UrlSmall}, MaxRuns, MaxKills, 0, 0, <<>>, {"row"}, FALSE) }
    \cup { Scenario({UrlSmall, UrlBig}, MaxRuns, 0, 0, 0, journal, {"again"},
                       FALSE) :
              journal \in Journals }

\* the state before the program starts, in one of the scenarios
Boot(scenarios) ==
    /\ scenario \in scenarios
    /\ InitFiles
    /\ phase = "down"
    /\ records = <<>>
    /\ saved_records = <<>>
    /\ passive = {}
    /\ ui = IdleUi
    /\ runs = [r \in RunIds |-> NoRun]
    /\ nextRun = 0
    /\ dialog = None
    /\ kills = 0
    /\ faults = 0
    /\ calc = NoCalc
    /\ locks = NoLocks

Init == Boot(Scenarios)

InitLive == Boot(ScenariosLive)

Next ==
    \/ Startup
    \/ UiBooted
    \/ UiAdd
    \/ UiStart
    \/ UiSaveRename
    \/ \E u \in AllUrls : Enqueue(u)
    \/ \E u \in AllUrls : EnqueueDuplicate(u)
    \/ \E r \in RunIds : Pause(r)
    \/ \E r \in RunIds : Cancel(r)
    \/ \E r \in RunIds : RestartRow(r)
    \/ \E r \in RunIds : DeleteRow(r)
    \/ \E row \in passive : ResumePassive(row)
    \/ \E row \in passive : RestartPassive(row)
    \/ \E row \in passive : DeletePassive(row)
    \/ \E r \in RunIds : Receive(r)
    \/ \E r \in RunIds : HeadAttempt(r)
    \/ \E r \in RunIds : ProbeUpdate(r)
    \/ \E r \in RunIds : ProbeSaveRename(r)
    \/ \E r \in RunIds : ModeSelect(r)
    \/ \E r \in RunIds : SeqOpen(r)
    \/ \E r \in RunIds : SeqRequest(r)
    \/ \E r \in RunIds : SeqGate(r)
    \/ \E r \in RunIds : SeqChunk(r)
    \/ \E r \in RunIds : SeqFinish(r)
    \/ \E r \in RunIds : ParCreate(r)
    \/ \E r \in RunIds, w \in 1..8 : WorkerRequest(r, w)
    \/ \E r \in RunIds, w \in 1..8 : WorkerGate(r, w)
    \/ \E r \in RunIds, w \in 1..8 : WorkerSeek(r, w)
    \/ \E r \in RunIds, w \in 1..8 : WorkerWrite(r, w)
    \/ \E r \in RunIds, w \in 1..8 : WorkerChunk(r, w)
    \/ \E r \in RunIds, w \in 1..8 : WorkerEnd(r, w)
    \/ \E r \in RunIds : ParJoin(r)
    \/ Kill

Spec == Init /\ [][Next]_vars

\* The GTK main loop runs every handler and every receiver that is ready:
\* the tasks of build_ui and add_download, the rename that ends a save,
\* and the receiver of each channel, which is ready again and again while
\* its channel holds a message.  An engine thread that holds the records
\* mutex ends its save.
\* a step of the task of run r on the runtime of its thread, the update of
\* the record by the probe apart
EngineStep(r) ==
    \/ HeadAttempt(r) \/ ModeSelect(r)
    \/ SeqOpen(r) \/ SeqRequest(r) \/ SeqGate(r) \/ SeqChunk(r) \/ SeqFinish(r)
    \/ ParCreate(r) \/ ParJoin(r)
    \/ \E w \in 1..8 :
         \/ WorkerRequest(r, w) \/ WorkerGate(r, w) \/ WorkerSeek(r, w)
         \/ WorkerWrite(r, w) \/ WorkerChunk(r, w) \/ WorkerEnd(r, w)

Fairness ==
    /\ WF_vars(UiAdd) /\ WF_vars(UiStart) /\ WF_vars(UiBooted)
    /\ WF_vars(UiSaveRename)
    /\ \A r \in RunIds : WF_vars(ProbeSaveRename(r)) /\ SF_vars(Receive(r))
    \* an engine thread runs; the records mutex is granted to it in the end;
    \* every request is answered or fails, and every stream yields its next
    \* chunk, its error or its end (the client has a timeout of 30 s)
    /\ \A r \in RunIds : SF_vars(ProbeUpdate(r)) /\ WF_vars(EngineStep(r))

SpecLive == InitLive /\ [][Next]_vars /\ Fairness

----------------------------------------------------------------------------
(* The pure steps of start_download on their own: the mode selection for   *)
(* a file of n bytes and, in parallel mode, its partition into segments.   *)

\* file sizes around the thresholds of calculate_optimal_chunks, and sizes
\* that no segment count divides
CalcSizes ==
    { m * MiB + d : m \in {0, 1, 2, 3, 9, 10, 11, 99, 100, 101, 1023, 1024, 1025, 2047},
                    d \in {0, 1, 2, 3, 5, 7, MiB - 1} }
    \cup 1..CalcSmall

InitCalc ==
    /\ scenario = Scenario({}, 0, 0, 0, 0, <<>>, {}, FALSE)
    /\ InitFiles
    /\ phase = "down"
    /\ records = <<>>
    /\ saved_records = <<>>
    /\ passive = {}
    /\ ui = IdleUi
    /\ runs = [r \in RunIds |-> NoRun]
    /\ nextRun = 0
    /\ dialog = None
    /\ kills = 0
    /\ faults = 0
    /\ calc \in {[NoCalc EXCEPT !.n = n, !.supports_range = s, !.is_resume = p] :
                    n \in CalcSizes, s \in BOOLEAN, p \in BOOLEAN}
    /\ locks = NoLocks

\* start_download: use_sequential
SelectMode ==
    /\ calc.mode = "none"
    /\ calc' = [calc EXCEPT !.mode =
                    IF UseSequential(calc.supports_range, calc.n, calc.is_resume)
                    THEN "seq" ELSE "par"]
    /\ UNCHANGED <<phase, jfs, committed, records, saved_records, passive, ui,
                   runs, nextRun, inodes, dfs, dialog, kills, faults, scenario, locks,
                   begun>>

\* start_download: num_chunks, chunk_size, last_chunk_size, start and end
Partition ==
    /\ calc.mode = "par"
    /\ ~calc.done
    /\ calc' = [calc EXCEPT !.done = TRUE, !.segments = Segments(calc.n)]
    /\ UNCHANGED <<phase, jfs, committed, records, saved_records, passive, ui,
                   runs, nextRun, inodes, dfs, dialog, kills, faults, scenario, locks,
                   begun>>

\* calculate_optimal_chunks on its own, for a file of any size
CountChunks ==
    /\ calc.chunks = 0
    /\ calc' = [calc EXCEPT !.chunks = calculate_optimal_chunks(calc.n)]
    /\ UNCHANGED <<phase, jfs, committed, records, saved_records, passive, ui,
                   runs, nextRun, inodes, dfs, dialog, kills, faults, scenario, locks,
                   begun>>

NextCalc == SelectMode \/ Partition \/ CountChunks

SpecCalc == InitCalc /\ [][NextCalc]_vars

----------------------------------------------------------------------------
(* The mutexes: the steps of the threads *)

\* the step a thread takes next, <<"none", "">> when it runs nothing
NextOp(t) ==
    LET th == locks.thread[t]
    IN IF th.at <= Len(th.prog) THEN th.prog[th.at] ELSE <<"none", "">>

\* past the last step the thread is idle again
Advance(th) ==
    IF th.at >= Len(th.prog) THEN IdleThread ELSE [th EXCEPT !.at = @ + 1]

UnchangedByLocks ==
    UNCHANGED <<phase, jfs, committed, records, saved_records, passive, ui,
                runs, nextRun, inodes, dfs, dialog, kills, faults, scenario,
                calc, begun>>

\* a handler, an engine step or a worker turn begins
LockBegin(t) ==
    /\ locks.thread[t] = IdleThread
    /\ \E p \in ProgramsOf(t) :
          locks' = [locks EXCEPT !.thread[t] = [prog |-> p, at |-> 1]]
    /\ UnchangedByLocks

\* Mutex::lock: returns once nobody holds the mutex, the caller included
LockAcquire(t) ==
    /\ NextOp(t)[1] = "lock"
    /\ locks.held[NextOp(t)[2]] = Nobody
    /\ locks' = [locks EXCEPT !.held[NextOp(t)[2]] = t,
                              !.thread[t] = Advance(@)]
    /\ UnchangedByLocks

\* the guard is dropped
LockRelease(t) ==
    /\ NextOp(t)[1] = "unlock"
    /\ locks' = [locks EXCEPT !.held[NextOp(t)[2]] = Nobody,
                              !.thread[t] = Advance(@)]
    /\ UnchangedByLocks

InitLocks ==
    /\ scenario = Scenario({}, 0, 0, 0, 0, <<>>, {}, FALSE)
    /\ InitFiles
    /\ phase = "down"
    /\ records = <<>>
    /\ saved_records = <<>>
    /\ passive = {}
    /\ ui = IdleUi
    /\ runs = [r \in RunIds |-> NoRun]
    /\ nextRun = 0
    /\ dialog = None
    /\ kills = 0
    /\ faults = 0
    /\ calc = NoCalc
    /\ locks = NoLocks

NextLocks ==
    \E t \in Threads : LockBegin(t) \/ LockAcquire(t) \/ LockRelease(t)

SpecLocks == InitLocks /\ [][NextLocks]_vars

----------------------------------------------------------------------------
(* Properties *)

\* C1: whatever saves ran and wherever the process was killed, what
\* load_downloads would return is the list of the last save that ended or
\* the whole list of the save now under way, never a cut or mixed list; a
\* leftover temporary file does not change what is loaded.
C1_AtomicJournal == LoadDownloads \in {committed, begun}

\* C1: the process was killed between the write of the temporary file and
\* the rename, was started again and loaded the list of the last save that
\* ended, a list that differs from the leftover temporary file.
C1_Witness ==
    /\ kills > 0
    /\ phase = "up"
    /\ saved_records # <<>>
    /\ saved_records = committed
    /\ jfs[TempPathAtomic].kind = "full"
    /\ jfs[TempPathAtomic].data # saved_records

\* C2: a download of a resource that serves ranges was cut by a kill of the
\* process when its .part file held part of the data and not all; the run that
\* resumes it after the restart, if no network failure hits it and it is not
\* cancelled, is sequential, ends with Complete and leaves a file equal to
\* the source.
C2_ResumeAfterKill ==
    \A r \in RunIds :
        ( /\ kills > 0
          /\ runs[r].pc = "done"
          /\ runs[r].resumed_at > 0
          /\ runs[r].found # SourceFile(runs[r].url)
          /\ \E k \in DOMAIN runs[r].found : runs[r].found[k] # Hole
          /\ Resource(runs[r].url).ranges
          /\ ~runs[r].cancelled
          /\ ~runs[r].faulted )
        => /\ runs[r].mode = "seq"
           /\ runs[r].ended = "Complete"
           /\ runs[r].product = SourceFile(runs[r].url)

\* C3: a run in parallel mode that no network failure hits and that is
\* never cancelled ends with Complete and leaves a file equal to the
\* source, whatever the order of its workers' writes.
C3_ParallelComplete ==
    \A r \in RunIds :
        ( /\ runs[r].mode = "par"
          /\ runs[r].pc = "done"
          /\ ~runs[r].cancelled
          /\ ~runs[r].faulted )
        => /\ runs[r].ended = "Complete"
           /\ runs[r].product = SourceFile(runs[r].url)

\* C4: an engine that runs with its task's cancelled flag set and that no
\* network failure hits ends with Error("Cancelado") and with no .part file
\* left, and when the receiver handles the terminal event of such a run the
\* record stays Cancelled.
C4_CancelEnds ==
    [][\A r \in RunIds :
        /\ ( /\ runs[r].cancelled
             /\ runs[r].pc \notin {"none", "wait", "done"}
             /\ runs'[r].pc = "done"
             /\ ~runs'[r].faulted )
           => /\ runs'[r].ended = "Cancelado"
              /\ dfs'[PartPath(Filename(runs[r].url))] = 0
        /\ ( /\ runs[r].cancelled
             /\ runs[r].rx = "live"
             /\ runs'[r].rx = "ended"
             /\ ~runs[r].faulted
             /\ Find(records', runs[r].url) > 0 )
           => records'[Find(records', runs[r].url)].status = "Cancelled"
      ]_vars

\* C6: every engine that has started and has not sent its terminal event
\* has a record in the list, and that record is InProgress.
C6_LiveInProgress ==
    \A r \in RunIds :
        runs[r].pc \notin {"none", "wait", "done"}
        => /\ Find(records, runs[r].url) > 0
           /\ records[Find(records, runs[r].url)].status = "InProgress"

\* C7: while the row of a download stays in the list and the network has
\* not failed, a record of it that is Completed, Cancelled or Failed keeps
\* that status in every step.
C7_TerminalAbsorbing ==
    [][\A r \in RunIds :
        ( /\ runs[r].row /\ runs'[r].row
          /\ faults' = 0
          /\ Find(records, runs[r].url) > 0
          /\ Find(records', runs[r].url) > 0
          /\ records[Find(records, runs[r].url)].status
                \in {"Completed", "Cancelled", "Failed"} )
        => records'[Find(records', runs[r].url)].status
             = records[Find(records, runs[r].url)].status
      ]_vars

\* C8: every Completed record has a file_path, a date_completed and
\* downloaded_bytes equal to total_bytes, also when the network never fails.
C8_CompletedFields ==
    \A i \in 1..Len(records) :
        (faults = 0 /\ records[i].status = "Completed")
        => /\ IsSome(records[i].file_path)
           /\ IsSome(records[i].date_completed)
           /\ records[i].downloaded_bytes = records[i].total_bytes

RECURSIVE C5_Bytes(_)
\* the bytes of the ranges of a sequence of segments, added up
C5_Bytes(segs) ==
    IF segs = <<>> THEN 0
    ELSE (Head(segs).end - Head(segs).start + 1) + C5_Bytes(Tail(segs))

\* C5: the segments of a file of n >= 1 MiB bytes are ranges that are not
\* empty, lie in [0, n-1], are pairwise disjoint and hold n bytes together,
\* so that their union is [0, n-1].
C5_RangeCoverage ==
    (calc.done /\ calc.n >= 1048576)
    => LET segs == calc.segments
       IN /\ Len(segs) >= 1
          /\ \A k \in 1..Len(segs) :
                0 <= segs[k].start /\ segs[k].start <= segs[k].end
                                  /\ segs[k].end <= calc.n - 1
          /\ \A i \in 1..Len(segs), j \in 1..Len(segs) :
                i # j => segs[i].end < segs[j].start \/ segs[j].end < segs[i].start
          /\ C5_Bytes(segs) = calc.n

\* C5: a file whose size its four segments do not divide was partitioned;
\* the last segment took the remainder.
C5_Witness ==
    /\ calc.done
    /\ calc.n = 10 * 1048576 + 7
    /\ Len(calc.segments) = 4
    /\ calc.segments[4].end - calc.segments[4].start
          > calc.segments[1].end - calc.segments[1].start

\* C9: the mode chosen is sequential exactly when the server does not
\* serve ranges, the size is 0 or below 1 MiB, or a .part file is there,
\* and parallel otherwise.
C9_ModeSelection ==
    calc.mode # "none"
    => /\ calc.mode \in {"seq", "par"}
       /\ calc.mode = "seq" <=> ( \/ calc.supports_range = FALSE
                                 \/ calc.n = 0
                                 \/ calc.n < 1048576
                                 \/ calc.is_resume = TRUE )

\* C9: sequential mode was chosen for a file of 1 MiB or more of a server
\* that serves ranges, for the one reason that a .part file was there.
C9_Witness ==
    /\ calc.mode = "seq"
    /\ calc.supports_range
    /\ calc.n >= 1048576
    /\ calc.is_resume

\* C10: build_ui takes out of the loaded list the records that are
\* InProgress and not paused and no other, starts no engine before that,
\* and when it returns every record taken out has a fresh InProgress record
\* and a started engine, and every other loaded record is in the list as
\* loaded and has no engine.
C10_StartupResume ==
    [][LET Auto(rec) == rec.status = "InProgress" /\ rec.was_paused = FALSE
           Kept(rec) == ~Auto(rec)
           Engine(u) == \E r \in RunIds :
                            runs'[r].url = u /\ runs'[r].pc \notin {"none", "wait"}
           Task(u) == \E r \in RunIds : runs'[r].url = u /\ runs'[r].pc # "none"
       IN /\ (phase = "down" /\ phase' # "down")
             => /\ records' = SelectSeq(LoadDownloads, Kept)
                /\ \A r \in RunIds : runs'[r].pc = "none"
                /\ phase' = "up" <=> records' = LoadDownloads
          /\ (phase # "up" /\ phase' = "up")
             => \A i \in 1..Len(saved_records') :
                   LET rec == saved_records'[i]
                       at == Find(records', rec.url)
                   IN IF Auto(rec)
                      THEN /\ Engine(rec.url)
                           /\ at > 0
                           /\ records'[at].status = "InProgress"
                           /\ records'[at].was_paused = FALSE
                           /\ records'[at].date_added > rec.date_added
                      ELSE /\ at > 0
                           /\ records'[at] = rec
                           /\ ~Task(rec.url)
      ]_vars

\* C10: the process was started on a journal with a record to resume and a
\* record to keep; the first has its engine, the second is as it was.
C10_Witness ==
    /\ phase = "up"
    /\ \E i \in 1..Len(saved_records), j \in 1..Len(saved_records) :
          /\ saved_records[i].status = "InProgress"
          /\ ~saved_records[i].was_paused
          /\ \E r \in RunIds : /\ runs[r].url = saved_records[i].url
                                /\ runs[r].pc \notin {"none", "wait"}
          /\ saved_records[j].status = "InProgress"
          /\ saved_records[j].was_paused
          /\ \E k \in 1..Len(records) : records[k] = saved_records[j]
          /\ \A r \in RunIds : runs[r].url # saved_records[j].url

\* C11: the add dialog answered for a url that is in the list starts no
\* add_download, and the warning it shows carries the file name, the status
\* and the date (to the minute) of the record of that url, while the list,
\* the journal files, the tasks and the engines stay as they are.
C11_DuplicateRejected ==
    [][/\ \A u \in AllUrls :
            (Find(records, u) > 0 /\ records' = records /\ passive' = passive)
            => ~(ui.todo = <<>> /\ ui'.todo # <<>> /\ Head(ui'.todo).url = u)
       /\ (dialog' # dialog /\ dialog' # <<>>)
          => LET shown == dialog'[1]
                 at == Find(records, shown.url)
             IN /\ at > 0
                /\ shown.filename = records[at].filename
                /\ shown.date_added = (records[at].date_added + 1) \div 2
                /\ shown.status =
                     CASE records[at].status = "Completed" -> "concluido"
                       [] records[at].status = "Failed" -> "com falha"
                       [] records[at].status = "Cancelled" -> "cancelado"
                       [] records[at].status = "InProgress" /\ records[at].was_paused
                            -> "pausado"
                       [] OTHER -> "em progresso"
                /\ UNCHANGED <<records, jfs, runs, ui, nextRun, inodes, dfs>>
      ]_vars

\* C11: the warning was shown for a url whose record is Completed, and the
\* list holds that record and no engine runs for the url.
C11_Witness ==
    /\ dialog # <<>>
    /\ dialog[1].status = "concluido"
    /\ Find(records, dialog[1].url) > 0
    /\ records[Find(records, dialog[1].url)].status = "Completed"
    /\ \A r \in RunIds : runs[r].url # dialog[1].url

UniqueUrls(recs) ==
    \A i, j \in DOMAIN recs : recs[i].url = recs[j].url => i = j

\* C12: no two records of the journal file, and no two of the list in
\* memory it is written from, have the same url.
C12_UniqueUrls ==
    /\ UniqueUrls(LoadDownloads)
    /\ UniqueUrls(FromJson(jfs[TempPath]))
    /\ UniqueUrls(records)

\* C12: add_download has run for a url that the loaded journal held, and
\* the journal file saved since holds two records.
C12_Witness ==
    /\ phase = "up"
    /\ Len(LoadDownloads) = 2
    /\ LoadDownloads = records
    /\ \E r \in RunIds : Find(saved_records, runs[r].url) > 0

\* the engine of run r sends a Progress message in this step
EmitsProgress(r) ==
    /\ Len(runs'[r].chan) = Len(runs[r].chan) + 1
    /\ Last(runs'[r].chan).type = "Progress"

\* C13: while a running download stays paused and is not cancelled, its
\* engine sends no Progress message and the blocks of its .part file stay
\* as they are.
C13_PausedIsQuiet ==
    [][\A r \in RunIds :
          (/\ runs[r].paused /\ runs'[r].paused
           /\ ~runs[r].cancelled /\ ~runs'[r].cancelled
           /\ runs[r].pc \notin {"none", "done"})
          => /\ ~EmitsProgress(r)
             /\ runs[r].fh # 0 => inodes'[runs[r].fh].cells = inodes[runs[r].fh].cells
      ]_vars

\* worker w of run r returns Ok(()) in this step
C14_ReturnsOk(r, w) ==
    /\ w \in DOMAIN runs[r].workers /\ w \in DOMAIN runs'[r].workers
    /\ runs[r].workers[w].pc = "stream"
    /\ runs'[r].workers[w].pc = "ok"

\* worker w of run r writes in this step
C14_Writes(r, w) ==
    /\ w \in DOMAIN runs[r].workers /\ w \in DOMAIN runs'[r].workers
    /\ runs'[r].workers[w].current_pos # runs[r].workers[w].current_pos

\* the stream of the worker has ended with no error, the worker has written
\* end - start + 1 bytes, and every byte it writes is at an offset of
\* [start, end]
C14_WroteItsSegment(r, w) ==
    LET wk == runs[r].workers[w]
        cells == inodes[runs[r].fh].cells
    IN /\ C14_ReturnsOk(r, w)
          => /\ wk.from = wk.to
             /\ wk.current_pos - wk.start = wk.end - wk.start + 1
       /\ C14_Writes(r, w)
          => /\ wk.start <= wk.current_pos
             /\ runs'[r].workers[w].current_pos - 1 <= wk.end
             /\ Len(inodes'[runs[r].fh].cells) = Len(cells)
             /\ \A k \in DOMAIN cells :
                    inodes'[runs[r].fh].cells[k] # cells[k]
                    => /\ wk.start <= (k - 1) * Block
                       /\ k * Block - 1 <= wk.end

\* C14: a segment worker returns Ok(()) only when the download is not
\* cancelled, the worker has consumed its stream without error and has
\* written end - start + 1 bytes, all of them at offsets of [start, end].
C14_WorkerOk ==
    [][\A r \in RunIds, w \in 1..8 :
          /\ C14_WroteItsSegment(r, w)
          /\ C14_ReturnsOk(r, w) => ~runs[r].cancelled
      ]_vars

\* the engine of run r, in parallel mode, ends in this step after a worker
\* returned an error, and the download is not cancelled
C15_JoinsFailed(r) ==
    /\ runs[r].pc = "par_run" /\ runs'[r].pc = "done"
    /\ \E w \in DOMAIN runs[r].workers : runs[r].workers[w].pc = "err"
    /\ ~runs[r].cancelled

\* C15: when a worker of a parallel download returned an error and the
\* download is not cancelled, the engine ends by sending one Error and
\* nothing else, the .part file stays where it is with its blocks, no
\* Complete is ever sent, and the receiver of that Error makes the record
\* Failed.
C15_WorkerErrorFails ==
    [][\A r \in RunIds :
          LET part == PartPath(Filename(runs[r].url))
          IN /\ C15_JoinsFailed(r)
                => /\ Len(runs'[r].chan) = Len(runs[r].chan) + 1
                   /\ Last(runs'[r].chan).type = "Error"
                   /\ ~IsCancelText(Last(runs'[r].chan).reason)
                   /\ dfs' = dfs
                   /\ dfs[part] # 0
                   /\ inodes'[dfs[part]] = inodes[dfs[part]]
                   /\ dfs'[FinalPath(Filename(runs[r].url))] = 0
             /\ runs[r].ended = "Erro ao baixar chunks"
                => /\ runs'[r].chan = runs[r].chan \/ runs'[r].chan = Tail(runs[r].chan)
                      \/ runs'[r] = NoRun
                   /\ \A i \in DOMAIN runs[r].chan : runs[r].chan[i].type # "Complete"
             /\ (/\ runs[r].ended = "Erro ao baixar chunks"
                 /\ runs[r].chan # <<>> /\ Head(runs[r].chan).type = "Error"
                 /\ runs'[r].chan = Tail(runs[r].chan)
                 /\ Find(records, runs[r].url) > 0)
                => records'[Find(records, runs[r].url)].status = "Failed"
      ]_vars

\* C15: a parallel download ended after a worker error, it was not
\* cancelled, its Error is received, the record is Failed and the .part file
\* is on disk.
C15_Witness ==
    \E r \in RunIds :
        /\ runs[r].ended = "Erro ao baixar chunks"
        /\ ~runs[r].cancelled
        /\ runs[r].chan = <<>>
        /\ Find(records, runs[r].url) > 0
        /\ records[Find(records, runs[r].url)].status = "Failed"
        /\ dfs[PartPath(Filename(runs[r].url))] # 0

\* the calls of retry_request in progress: the HEAD or the GET of a run, the
\* GET of a segment worker
C16_Calls ==
    { <<r, 0>> : r \in { r \in RunIds : runs[r].pc \in {"head", "seq_req"} } }
    \cup { <<r, w>> : r \in { r \in RunIds : runs[r].pc = "par_run" },
                      w \in 1..8 }

C16_Call(rs, c) ==
    IF c[2] = 0 THEN [live |-> rs[c[1]].pc \in {"head", "seq_req"},
                      attempt |-> rs[c[1]].attempt, slept |-> rs[c[1]].slept]
    ELSE IF rs[c[1]].pc = "par_run" /\ c[2] \in DOMAIN rs[c[1]].workers
    THEN [live |-> rs[c[1]].workers[c[2]].pc = "req",
          attempt |-> rs[c[1]].workers[c[2]].attempt,
          slept |-> rs[c[1]].workers[c[2]].slept]
    ELSE [live |-> FALSE, attempt |-> 0, slept |-> <<>>]

\* C16: a call of retry_request makes at most 3 attempts; it has slept 2 s
\* after its first recoverable failure and 4 s after its second, and
\* nothing else: a call that failed has not slept after its last attempt.
C16_RetrySchedule ==
    /\ [](/\ \A c \in C16_Calls :
               LET call == C16_Call(runs, c)
               IN call.live
                  => /\ call.attempt + 1 <= 3
                     /\ call.slept = SubSeq(<<2, 4>>, 1, call.attempt)
           /\ \A r \in RunIds :
               runs[r].failure # <<>>
               => /\ runs[r].failure.attempt + 1 <= 3
                  /\ runs[r].failure.slept = SubSeq(<<2, 4>>, 1, runs[r].failure.attempt))
    /\ [][\A c \in C16_Calls :
            LET call == C16_Call(runs, c)
                next == C16_Call(runs', c)
            IN (call.live /\ next.live /\ next.attempt # call.attempt)
               => /\ next.attempt = call.attempt + 1
                  /\ call.attempt \in {0, 1}
                  /\ next.slept = Append(call.slept, 2 * (2 ^ call.attempt))
                  /\ faults' = faults + 1
               ]_vars

\* C16: the GET of a sequential download has failed twice, has slept 2 s
\* and 4 s, and makes its third attempt
C16_Witness ==
    \E r \in RunIds :
        /\ runs[r].pc = "seq_req"
        /\ runs[r].attempt = 2
        /\ runs[r].slept = <<2, 4>>

\* a call of retry_request of run r returns Err in this step
C17_ReturnsErr(r) == runs'[r].failure # runs[r].failure /\ runs'[r].failure # <<>>

\* C17: a call of retry_request returns Err either at the attempt that met
\* a terminal error, with no sleep and no attempt after it, or at its third
\* attempt, after three recoverable errors, with the error of that attempt.
\* The engine then sends an Error (a segment worker returns Err, and the
\* join sends the Error unless the download is cancelled), and the receiver
\* of that Error makes the record Failed.
C17_ErrorsEndTheCall ==
    [][\A r \in RunIds :
          /\ C17_ReturnsErr(r)
             => LET err == runs'[r].failure
                    calls == { c \in C16_Calls :
                                 /\ c[1] = r
                                 /\ C16_Call(runs, c).live
                                 /\ ~C16_Call(runs', c).live }
                IN /\ faults' = faults + 1
                   /\ err.kind \in {"fatal", "recoverable"}
                   /\ err.kind = "recoverable" => err.attempt + 1 = 3
                   /\ Cardinality(calls) = 1
                   /\ \A c \in calls :
                        /\ err.attempt = C16_Call(runs, c).attempt
                        /\ err.slept = C16_Call(runs, c).slept
                        /\ Len(err.slept) = err.attempt
                        /\ IF c[2] = 0
                           THEN /\ runs'[r].pc = "done"
                                /\ runs'[r].chan = Append(runs[r].chan, Last(runs'[r].chan))
                                /\ Last(runs'[r].chan).type = "Error"
                                /\ ~IsCancelText(Last(runs'[r].chan).reason)
                           ELSE runs'[r].workers[c[2]].pc = "err"
          /\ (/\ runs[r].failure # <<>>
              /\ runs[r].pc = "done"
              /\ runs[r].chan # <<>> /\ Head(runs[r].chan).type = "Error"
              /\ ~IsCancelText(Head(runs[r].chan).reason)
              /\ runs'[r].chan = Tail(runs[r].chan)
              /\ Find(records, runs[r].url) > 0)
             => records'[Find(records, runs[r].url)].status = "Failed"
      ]_vars

\* C17: the HEAD of a download met three recoverable errors, the call
\* returned the third after sleeps of 2 s and 4 s, and the record is Failed
C17_Witness ==
    \E r \in RunIds :
        /\ runs[r].failure = [kind |-> "recoverable", attempt |-> 2, slept |-> <<2, 4>>]
        /\ runs[r].ended = "Erro ao obter info"
        /\ runs[r].chan = <<>>
        /\ Find(records, runs[r].url) > 0
        /\ records[Find(records, runs[r].url)].status = "Failed"

\* C17: the GET of a download met a terminal error at its second attempt,
\* the call returned it at once, and the record is Failed
C17_WitnessTerminal ==
    \E r \in RunIds :
        /\ runs[r].failure = [kind |-> "fatal", attempt |-> 1, slept |-> <<2>>]
        /\ runs[r].ended = "Erro na requisicao"
        /\ runs[r].chan = <<>>
        /\ Find(records, runs[r].url) > 0
        /\ records[Find(records, runs[r].url)].status = "Failed"

\* C18: a download whose HEAD was answered with a 4xx or 5xx status ends
\* with an Error at once: its engine opens no .part file, sends no GET and
\* never completes; and a GET answered with a 4xx or 5xx status ends the
\* sequential engine with an Error in the same step.
C18_StatusFails ==
    [][\A r \in RunIds :
          /\ runs'[r].head_status >= 400
             => /\ runs'[r].pc \notin {"seq_open", "seq_req", "seq_stream",
                                       "par_create", "par_run"}
                /\ runs'[r].ended # "Complete"
          /\ (runs[r].pc = "seq_req" /\ runs'[r].ended = "Status HTTP")
             => /\ runs'[r].pc = "done"
                /\ Last(runs'[r].chan).type = "Error"
                /\ inodes'[runs[r].fh] = inodes[runs[r].fh]
      ]_vars

\* C19: the response to a GET of a download (one whose HEAD was answered
\* with 200) is streamed only when its status is 200 or 206; a response of
\* any other status ends the engine or the worker with an error, and the
\* download does not complete.
C19_OnlyOkOrPartial ==
    [][\A r \in RunIds :
          runs'[r].head_status = 200
          =>
          /\ runs'[r].ended # "Complete" \/ runs'[r].product # <<>>
          /\ runs'[r].pc = "seq_stream" => runs'[r].status \in {200, 206}
          /\ runs'[r].pc = "par_run"
             => \A w \in DOMAIN runs'[r].workers :
                    runs'[r].workers[w].pc \in {"stream", "ok"}
                    => runs'[r].workers[w].status \in {200, 206}
      ]_vars

\* C20: the row of a download whose record is Cancelled or Failed offers
\* the restart button.
C20_RestartOffered ==
    \A r \in RunIds :
        (/\ runs[r].row
         /\ Find(records, runs[r].url) > 0
         /\ records[Find(records, runs[r].url)].status \in {"Cancelled", "Failed"})
        => Shows(r, "restart")

\* the delete button of the row of run r, or of a row of a loaded record,
\* is handled in this step: the row leaves the list and no add_download is
\* asked for
C21_DeletesRow(r) ==
    /\ runs[r].row /\ ~runs'[r].row /\ runs'[r].pc # "none"
    /\ ui'.todo = <<>>

C21_DeletesPassive(row) ==
    /\ row \in passive /\ row \notin passive'
    /\ phase' = "up" /\ ui'.todo = <<>>

\* the list after the step is the list before it without the records of
\* url, the other records as they were and in their order; the journal
\* file is written from it; the files of the download directory stay
C21_Removed(url) ==
    /\ \A i \in DOMAIN records' : records'[i].url # url
    /\ \E keep \in SUBSET DOMAIN records :
          /\ keep = {i \in DOMAIN records : records[i].url # url}
          /\ Len(records') = Cardinality(keep)
          /\ \A i \in keep :
                records'[Cardinality({j \in keep : j <= i})] = records[i]
    /\ Len(records') < Len(records)
    /\ FromJson(jfs'[TempPath]) = records'
    /\ ui'.pc = "rename"
    /\ dfs' = dfs /\ inodes' = inodes

\* C21: the delete handler removes the record of the url from the list and
\* from the journal (the save it starts ends with the journal file equal
\* to the list), changes no other record, deletes no file, and the task of
\* the row, if its engine has not ended, has its cancelled flag set.
C21_Delete ==
    [][/\ \A r \in RunIds :
            C21_DeletesRow(r)
            => /\ C21_Removed(runs[r].url)
               /\ runs'[r].pc # "done" => runs'[r].cancelled
       /\ \A row \in passive : C21_DeletesPassive(row) => C21_Removed(row.url)
       /\ (ui.pc = "rename" /\ ui'.pc = "idle" /\ phase' # "down")
          => (jfs'[JournalPath] = ToJson(records) /\ records' = records)
      ]_vars

\* C21: the row of a completed download was deleted: the record is in
\* neither the list nor the journal file, the other record of the journal
\* is, and the completed file is on disk.
C21_Witness ==
    \E r \in RunIds :
        /\ runs[r].ended = "Complete" /\ ~runs[r].row /\ ~runs[r].cancelled
        /\ runs[r].rx = "ended"
        /\ ui = IdleUi
        /\ Find(records, runs[r].url) = 0
        /\ LoadDownloads = records
        /\ Len(records) = 1
        /\ dfs[FinalPath(Filename(runs[r].url))] # 0

\* the events of run r that are terminal
C22_Terminal(msg) == msg.type \in {"Complete", "Error"}

\* C22: the engine of a run puts a terminal event on its channel in the
\* step in which it ends and in no other, that event is the last one put
\* on the channel, the receiver gets it (while the process lives), and in
\* handling it gives the record of the url its terminal status.
C22_OneTerminalEvent ==
    /\ [][\A r \in RunIds :
            LET ends == runs[r].pc \notin {"done", "none"} /\ runs'[r].pc = "done"
                puts == Len(runs'[r].chan) = Len(runs[r].chan) + 1
                gets == /\ runs[r].rx = "live" /\ runs[r].chan # <<>>
                        /\ runs'[r].chan = Tail(runs[r].chan)
                        /\ runs'[r].pc # "none"
                at == Find(records, runs[r].url)
            IN /\ ends => (puts /\ C22_Terminal(Last(runs'[r].chan))
                                /\ runs'[r].chan = Append(runs[r].chan, Last(runs'[r].chan)))
               /\ (puts /\ ~ends) => Last(runs'[r].chan).type = "Progress"
               /\ runs[r].pc = "done"
                  => \/ runs'[r].chan = runs[r].chan
                     \/ gets
                     \/ runs'[r] = NoRun
               /\ \A i \in DOMAIN runs[r].chan :
                    C22_Terminal(runs[r].chan[i])
                    => i = Len(runs[r].chan) /\ runs[r].pc = "done"
               /\ (gets /\ C22_Terminal(Head(runs[r].chan)))
                  => /\ runs'[r].rx = "ended"
                     /\ at > 0
                        => records'[at].status =
                             IF Head(runs[r].chan).type = "Complete" THEN "Completed"
                             ELSE IF Head(runs[r].chan).reason = "Cancelado"
                             THEN "Cancelled" ELSE "Failed"
         ]_vars
    /\ \A r \in RunIds :
         (runs[r].pc = "done") ~> (runs[r].rx = "ended" \/ runs[r].pc = "none")

\* C22: a parallel download has ended with the file of the source, its
\* Complete was received, and the record is Completed.
C22_Witness ==
    \E r \in RunIds :
        /\ runs[r].mode = "par" /\ runs[r].ended = "Complete"
        /\ ~runs[r].faulted /\ runs[r].product = SourceFile(runs[r].url)
        /\ runs[r].rx = "ended" /\ runs[r].chan = <<>>
        /\ Find(records, runs[r].url) > 0
        /\ records[Find(records, runs[r].url)].status = "Completed"
        /\ records[Find(records, runs[r].url)].downloaded_bytes > 0

C23_Dated(recs) ==
    \A i \in DOMAIN recs :
        recs[i].status \in {"Cancelled", "Failed"} => recs[i].date_completed # <<>>

\* C23: every record of the list, of the journal file and of the temporary
\* file whose status is Cancelled or Failed has date_completed set.
C23_TerminalDated ==
    /\ C23_Dated(records)
    /\ C23_Dated(LoadDownloads)
    /\ C23_Dated(FromJson(jfs[TempPath]))

\* C23: the list holds a record cancelled by its cancel button, or one
\* failed by an Error of its engine, and the journal file holds it too
C23_Witness ==
    \E r \in RunIds :
        /\ Find(records, runs[r].url) > 0
        /\ LET rec == records[Find(records, runs[r].url)]
           IN \/ runs[r].cancelled /\ rec.status = "Cancelled"
              \/ runs[r].rx = "ended" /\ rec.status = "Failed"
        /\ LoadDownloads = records

\* C24: the number of segments of a file of n bytes is 2 below 10 MiB, 4
\* below 100 MiB, 6 below 1 GiB and 8 from there on, reduced to
\* floor(n / 1 MiB) when that is smaller, and never less than 1.
C24_ChunkCount ==
    calc.chunks # 0
    => LET n == calc.n
           tier == IF n < 10485760 THEN 2
                   ELSE IF n < 104857600 THEN 4
                   ELSE IF n < 1073741824 THEN 6
                   ELSE 8
           floor == n \div 1048576
           reduced == IF floor < tier THEN floor ELSE tier
       IN calc.chunks = IF reduced < 1 THEN 1 ELSE reduced

\* C24: a file of 1 MiB and 5 bytes has one segment: the 2 of its tier were
\* reduced to floor(n / 1 MiB)
C24_Witness ==
    /\ calc.n = 1048576 + 5
    /\ calc.chunks = 1

\* C25: the number of segments of a file is at least that of every smaller
\* file, and it is at least 1 for a file of 1 byte or more.
C25_Monotone ==
    calc.chunks # 0
    => /\ \A m \in CalcSizes :
            /\ m <= calc.n => calculate_optimal_chunks(m) <= calc.chunks
            /\ m >= calc.n => calculate_optimal_chunks(m) >= calc.chunks
       /\ calc.n >= 1 => calc.chunks >= 1

\* C25: a file of 10 MiB has more segments than the file one byte smaller
C25_Witness ==
    /\ calc.n = 10485760
    /\ calc.chunks = 4
    /\ calculate_optimal_chunks(calc.n - 1) = 2

\* the sequential engine of run r, or worker w of its parallel engine, has
\* a chunk of its stream at the gate, in the list of runs rs
C26_AtGate(rs, r, w) ==
    IF w = 0
    THEN rs[r].pc = "seq_stream" /\ rs[r].from < rs[r].to /\ ~rs[r].passed
    ELSE /\ rs[r].pc = "par_run" /\ w \in DOMAIN rs[r].workers
         /\ rs[r].workers[w].pc = "stream"
         /\ rs[r].workers[w].from < rs[r].workers[w].to
         /\ ~rs[r].workers[w].passed

\* what it has written
C26_Written(rs, r, w) ==
    IF w = 0 THEN rs[r].downloaded ELSE rs[r].workers[w].current_pos

\* it moves in this step
C26_Moves(r, w) ==
    IF w = 0 THEN [runs'[r] EXCEPT !.paused = FALSE, !.cancelled = FALSE, !.chan = <<>>,
                                   !.btn = {}, !.row = FALSE, !.rx = ""]
                  # [runs[r] EXCEPT !.paused = FALSE, !.cancelled = FALSE, !.chan = <<>>,
                                    !.btn = {}, !.row = FALSE, !.rx = ""]
    ELSE w \notin DOMAIN runs'[r].workers \/ runs'[r].workers[w] # runs[r].workers[w]

\* C26: a worker (or the sequential engine) whose chunk comes to the gate
\* when the download is cancelled exits at that gate, paused or not, and
\* writes nothing; while the download is paused and not cancelled it stays
\* at the gate; an engine ends unless its download is paused and not
\* cancelled: a cancelled download ends, paused or not, and a download that
\* is resumed goes on.
C26_Cooperative ==
    /\ [][\A r \in RunIds, w \in 0..8 :
            (C26_AtGate(runs, r, w) /\ C26_Moves(r, w) /\ runs'[r].pc # "none")
            => /\ runs[r].cancelled
                  => /\ IF w = 0 THEN runs'[r].pc = "done"
                                 ELSE runs'[r].workers[w].pc = "err"
                     /\ w # 0 => C26_Written(runs', r, w) = C26_Written(runs, r, w)
                     /\ runs[r].fh # 0 /\ inodes'[runs[r].fh].live
                        => inodes'[runs[r].fh].cells = inodes[runs[r].fh].cells
               /\ ~runs[r].cancelled => ~runs[r].paused
         ]_vars
    /\ \A r \in RunIds :
         (runs[r].pc \notin {"none", "done"})
           ~> (\/ runs[r].pc \in {"none", "done"}
               \/ runs[r].paused /\ ~runs[r].cancelled)

\* C26: a paused download was cancelled while a worker had a chunk at the
\* gate, and the worker has left before the end of its segment
C26_Witness ==
    \E r \in RunIds :
        /\ runs[r].paused /\ runs[r].cancelled
        /\ runs[r].pc = "par_run" /\ ~runs[r].faulted
        /\ \E w \in DOMAIN runs[r].workers :
             /\ runs[r].workers[w].pc = "err"
             /\ runs[r].workers[w].status = 206
             /\ runs[r].workers[w].from < runs[r].workers[w].to
             /\ runs[r].workers[w].current_pos < runs[r].workers[w].end

\* C27: when the parallel engine has awaited all its workers and the
\* download is cancelled, it removes the .part file, leaves the final path
\* as it was and emits Error("Cancelado"), whatever the workers returned.
C27_CancelAfterJoin ==
    [][\A r \in RunIds :
          (runs[r].pc = "par_run" /\ runs'[r].pc = "done" /\ runs[r].cancelled)
          => LET name == Filename(runs[r].url)
             IN /\ dfs'[PartPath(name)] = 0
                /\ dfs'[FinalPath(name)] = dfs[FinalPath(name)]
                /\ runs'[r].file_path = runs[r].file_path
                /\ Len(runs'[r].chan) = Len(runs[r].chan) + 1
                /\ Last(runs'[r].chan) = Error("Cancelado")
      ]_vars

\* C27: every worker wrote its whole segment (the last Progress counts the
\* whole size), the download was cancelled before the join, and the engine
\* ended with Error("Cancelado") and without the .part file
C27_Witness ==
    \E r \in RunIds :
        /\ runs[r].pc = "done" /\ runs[r].mode = "par" /\ runs[r].cancelled
        /\ ~runs[r].faulted
        /\ Len(runs[r].chan) = 2
        /\ runs[r].chan[1].type = "Progress"
        /\ runs[r].chan[1].num = runs[r].chan[1].den
        /\ runs[r].chan[2] = Error("Cancelado")
        /\ dfs[PartPath(Filename(runs[r].url))] = 0

\* C28: when a chunk of an established stream is an error, the sequential
\* engine ends with Error("Erro ao baixar") and the worker ends with an
\* error, in that step; the files are left as they are; an engine that has
\* ended and a worker that has failed make no request again.
C28_NoRetryMidStream ==
    [][\A r \in RunIds :
          /\ (runs[r].pc = "seq_stream" /\ faults' = faults + 1
                /\ runs'[r] # runs[r])
             => /\ runs'[r].pc = "done"
                /\ Last(runs'[r].chan) = Error("Erro ao baixar")
                /\ dfs' = dfs
                /\ Exists(PartPath(Filename(runs[r].url)))
                   => inodes'[dfs[PartPath(Filename(runs[r].url))]]
                        = inodes[dfs[PartPath(Filename(runs[r].url))]]
          /\ \A w \in DOMAIN runs[r].workers :
                (/\ runs[r].pc = "par_run" /\ runs[r].workers[w].pc = "stream"
                 /\ faults' = faults + 1
                 /\ runs'[r].workers[w] # runs[r].workers[w])
                => /\ runs'[r].workers[w].pc = "err"
                   /\ dfs' = dfs /\ inodes' = inodes
          /\ runs[r].pc = "done" => runs'[r].pc \in {"done", "none"}
          /\ \A w \in DOMAIN runs[r].workers :
                runs[r].workers[w].pc = "err"
                => \/ runs'[r].pc \in {"done", "none"}
                   \/ runs'[r].workers[w] = runs[r].workers[w]
      ]_vars

\* C28: a sequential download wrote a part of the file, its next chunk was
\* an error, and the engine has ended with the .part file in place
C28_Witness ==
    \E r \in RunIds :
        /\ runs[r].pc = "done" /\ runs[r].ended = "Erro ao baixar"
        /\ Exists(PartPath(Filename(runs[r].url)))
        /\ inodes[dfs[PartPath(Filename(runs[r].url))]].cells # <<>>

\* C28: a chunk of a worker's established stream was an error, and the
\* worker has ended with an error and the .part file in place
C28_WitnessWorker ==
    \E r \in RunIds :
        /\ runs[r].pc = "par_run" /\ ~runs[r].cancelled
        /\ \E w \in DOMAIN runs[r].workers :
             runs[r].workers[w].pc = "err" /\ runs[r].workers[w].status = 206
        /\ Exists(PartPath(Filename(runs[r].url)))

\* C29: every chunk a worker writes lands at that worker's current_pos,
\* which is its start plus the bytes it has written; while a worker is
\* between its seek and its write it holds the guard of the file alone, and
\* no other worker of the download seeks or writes through the handle.
C29_SeekWriteAtomic ==
    /\ [](\A r \in RunIds :
            /\ \A w \in DOMAIN runs[r].workers :
                 /\ runs[r].workers[w].pc = "write"
                    => /\ runs[r].file_guard = w
                       /\ runs[r].cursor = runs[r].workers[w].current_pos
                 /\ runs[r].workers[w].current_pos - runs[r].workers[w].start
                      = runs[r].workers[w].from
                        - (IF runs[r].workers[w].status = 206
                           THEN runs[r].workers[w].start ELSE 0)
                    \/ runs[r].workers[w].pc \in {"req", "err"}
            /\ Cardinality({w \in DOMAIN runs[r].workers :
                               runs[r].workers[w].pc = "write"}) <= 1)
    /\ [][\A r \in RunIds :
            runs[r].pc = "par_run" /\ runs'[r].pc = "par_run"
            => /\ \A w \in DOMAIN runs[r].workers :
                    LET wk == runs[r].workers[w]
                        n == runs'[r].workers[w].current_pos - wk.current_pos
                    IN n # 0
                       => /\ n > 0
                          /\ inodes'[runs[r].fh].cells =
                               WriteAt(inodes[runs[r].fh].cells, wk.current_pos,
                                       SourceBlocks(runs[r].url, wk.from, wk.from + n))
               /\ \A w \in DOMAIN runs[r].workers :
                    (runs[r].workers[w].pc = "write"
                     /\ runs'[r].workers[w] = runs[r].workers[w])
                    => /\ runs'[r].cursor = runs[r].cursor
                       /\ runs'[r].file_guard = runs[r].file_guard
                       /\ \A v \in DOMAIN runs[r].workers :
                            /\ runs'[r].workers[v].current_pos
                                 = runs[r].workers[v].current_pos
                            /\ runs'[r].workers[v].pc = "write"
                               => runs[r].workers[v].pc = "write"
       ]_vars

\* C29: a worker holds the guard between its seek and its write while
\* another worker has a chunk to write at another offset
C29_Witness ==
    \E r \in RunIds :
        /\ runs[r].pc = "par_run"
        /\ \E w, v \in DOMAIN runs[r].workers :
             /\ w # v
             /\ runs[r].workers[w].pc = "write"
             /\ runs[r].workers[v].pc = "stream"
             /\ runs[r].workers[v].from < runs[r].workers[v].to
             /\ runs[r].workers[v].current_pos > runs[r].workers[v].start
             /\ runs[r].workers[w].current_pos > runs[r].workers[w].start

\* C30: the step that emits Complete has renamed the .part file to the
\* final path and has set file_path to the final path; an engine whose
\* rename failed emits an Error and no Complete; a Complete that waits in
\* the channel or is handled by the observer finds file_path set.
C30_FinalizeOrder ==
    /\ [](\A r \in RunIds :
            (\E i \in 1..Len(runs[r].chan) : runs[r].chan[i].type = "Complete")
            => runs[r].file_path = Some(FinalPath(Filename(runs[r].url))))
    /\ [][\A r \in RunIds :
            LET name == Filename(runs[r].url)
                ends == /\ runs[r].pc \in {"seq_stream", "par_run"}
                        /\ runs'[r].pc = "done"
            IN /\ (ends /\ Last(runs'[r].chan).type = "Complete")
                  => /\ Exists(PartPath(name))
                     /\ dfs'[FinalPath(name)] = dfs[PartPath(name)]
                     /\ dfs'[PartPath(name)] = 0
                     /\ runs'[r].file_path = Some(FinalPath(name))
               /\ (ends /\ Last(runs'[r].chan) = Error("Erro ao finalizar"))
                  => /\ ~Exists(PartPath(name))
                     /\ dfs' = dfs
                     /\ runs'[r].file_path = runs[r].file_path
               /\ (runs[r].chan # <<>> /\ Head(runs[r].chan).type = "Complete"
                    /\ runs'[r].chan = Tail(runs[r].chan) /\ runs'[r].pc # "none")
                  => runs[r].file_path = Some(FinalPath(name))
       ]_vars

\* C30: the observer has handled the Complete of a download whose file is
\* at the final path, and file_path is that path
C30_Witness ==
    \E r \in RunIds :
        /\ runs[r].rx = "ended" /\ runs[r].ended = "Complete"
        /\ runs[r].product = SourceFile(runs[r].url)
        /\ runs[r].file_path = Some(FinalPath(Filename(runs[r].url)))
        /\ Exists(FinalPath(Filename(runs[r].url)))
        /\ ~Exists(PartPath(Filename(runs[r].url)))

\* C30: the rename of an engine failed and it has ended with an Error
C30_WitnessRenameFailed ==
    \E r \in RunIds :
        /\ runs[r].pc = "done" /\ runs[r].ended = "Erro ao finalizar"
        /\ runs[r].file_path = None

\* the pause handler of run r, or the periodic snapshot of its receiver,
\* runs in this step
C31_Toggles(r) == runs'[r].paused # runs[r].paused /\ kills' = kills

C31_Snapshots(r) ==
    /\ runs[r].chan # <<>> /\ Head(runs[r].chan).type = "Progress"
    /\ runs'[r].chan = Tail(runs[r].chan) /\ runs'[r].rx = "live"
    /\ ui'.pc = "rename"

\* C31: after a pause/resume toggle and after a periodic snapshot, the
\* record of every download that is live and not cancelled has was_paused
\* equal to the paused flag of its task, and the handler has written the
\* records to the journal file it then renames; when no handler is at work
\* the journal on disk holds the same value, so that a download paused at a
\* kill is not resumed by the next start.
C31_WasPausedTracks ==
    /\ [][\A r \in RunIds :
            (C31_Toggles(r) \/ C31_Snapshots(r))
            => /\ begun' = records' /\ jfs'[TempPath] = ToJson(records')
               /\ \A q \in RunIds :
                    (Shows(q, "pause") /\ Find(records', runs[q].url) > 0)
                    => records'[Find(records', runs[q].url)].was_paused
                         = runs'[q].paused
       ]_vars
    /\ [](\A q \in RunIds :
            (/\ phase = "up" /\ ui = IdleUi
             /\ Shows(q, "pause") /\ runs[q].paused
             /\ Find(LoadDownloads, runs[q].url) > 0)
            => ~AutoResume(LoadDownloads[Find(LoadDownloads, runs[q].url)]))

\* C32: add_download for a url that has no record appends a record that is
\* InProgress, not paused, with no bytes and no date_completed, and writes
\* the records to the journal file; when the engine of a download is
\* started, the journal on disk holds an InProgress record of its url.
C32_PersistedBeforeStart ==
    [][\A r \in RunIds :
          /\ (nextRun' = r /\ nextRun = r - 1 /\ Find(records, runs'[r].url) = 0)
             => /\ Len(records') = Len(records) + 1
                /\ \A i \in DOMAIN records : records'[i] = records[i]
                /\ Last(records').url = runs'[r].url
                /\ Last(records').status = "InProgress"
                /\ ~Last(records').was_paused
                /\ Last(records').downloaded_bytes = 0
                /\ Last(records').date_completed = None
                /\ jfs'[TempPath] = ToJson(records')
                /\ runs'[r].pc = "wait"
          /\ (runs[r].pc = "wait" /\ runs'[r].pc # "wait" /\ kills' = kills)
             => /\ runs'[r].pc = "head"
                /\ Find(LoadDownloads, runs[r].url) > 0
                /\ LoadDownloads[Find(LoadDownloads, runs[r].url)].status
                     = "InProgress"
      ]_vars

\* C32: the engine of a url that had no record was started, and the journal
\* on disk holds the record that add_download appended
C32_Witness ==
    /\ scenario.journal = <<>> /\ nextRun = 1 /\ kills = 0
    /\ runs[1].pc = "head"
    /\ Find(LoadDownloads, runs[1].url) > 0
    /\ LoadDownloads[Find(LoadDownloads, runs[1].url)]
         = NewRecord(runs[1].url, LoadDownloads[1].date_added)

\* the threads that hold the records mutex, between the write and the
\* rename of their save
C33_Savers ==
    {r \in RunIds : runs[r].pc = "probe_rename"}
    \cup (IF ui.pc = "rename" THEN {0} ELSE {})

\* C33: whenever the records mutex is free the journal on disk holds the
\* records of the memory; at most one thread is inside a save; every step
\* that changes the records is made by a thread that found the mutex free
\* and has written the new records to the journal file it renames before
\* it releases the mutex.
C33_JournalInSync ==
    /\ []((phase # "down" /\ C33_Savers = {}) => LoadDownloads = records)
    /\ [](Cardinality(C33_Savers) <= 1)
    /\ [][(records' # records /\ kills' = kills)
           => /\ C33_Savers = {}
              /\ \/ /\ Cardinality(C33_Savers') = 1
                    /\ jfs'[TempPath] = ToJson(records')
                    /\ begun' = records'
                 \/ C33_Savers' = {} /\ LoadDownloads' = records'
       ]_vars

\* C33: the receiver and the engine of a download have both changed its
\* record and saved it, the mutex is free, and the journal on disk holds
\* the records of the memory
C33_Witness ==
    /\ phase = "up" /\ C33_Savers = {} /\ records # <<>>
    /\ LoadDownloads = records /\ scenario.journal = <<>>
    /\ \E i \in DOMAIN records, r \in RunIds :
         /\ runs[r].url = records[i].url /\ runs[r].rx = "ended"
         /\ records[i].total_bytes > 0 /\ records[i].status = "Completed"

\* C34: the task of a download is made with cancelled = false and
\* paused = false; once cancelled is true it stays true as long as the task
\* lives, whatever the handlers, the receiver and the engine do.
C34_CancelledMonotonic ==
    [][\A r \in RunIds :
          /\ (runs[r].pc = "none" /\ runs'[r].pc # "none")
             => ~runs'[r].cancelled /\ ~runs'[r].paused
          /\ (runs[r].cancelled /\ runs'[r].pc # "none") => runs'[r].cancelled
          /\ (~runs[r].cancelled /\ runs'[r].cancelled)
             => Shows(r, "cancel") /\ ~Shows(r, "cancel")'
      ]_vars

\* C34: a download was cancelled, its engine has ended and its receiver has
\* handled the terminal event; cancelled is still true
C34_Witness ==
    \E r \in RunIds :
        /\ runs[r].cancelled /\ ~runs[r].paused
        /\ runs[r].pc = "done" /\ runs[r].rx = "ended"
        /\ runs[r].ended = "Cancelado"

\* run q is the download that restart made of the cancelled run r
C35_Restarted(r, q) ==
    /\ r # q /\ runs[r].cancelled /\ ~runs[r].row
    /\ runs[q].url = runs[r].url /\ runs[q].row

\* the engine of run r, or its receiver, takes this step
C35_Acts(r) == runs'[r] # runs[r] /\ kills' = kills /\ runs[r].row = runs'[r].row

\* C35: once a cancelled download was restarted, no step of the cancelled
\* run's engine or receiver removes or changes the .part file of the url, and
\* none changes the record of the url.
C35_OneEnginePerUrl ==
    [][\A r, q \in RunIds :
          (C35_Restarted(r, q) /\ C35_Acts(r) /\ runs'[q] = runs[q])
          => LET part == PartPath(Filename(runs[r].url))
             IN /\ dfs'[part] = dfs[part]
                /\ Exists(part) => inodes'[dfs[part]] = inodes[dfs[part]]
                /\ records' = records
      ]_vars

\* the engine of run r is at work: started and not ended
C36_AtWork(r) == runs[r].pc \notin {"none", "wait", "done"}

\* C36: no two engines are at work at the same time for two different urls
\* that derive the same filename, and so the same .part path and the same
\* final path.
C36_DistinctPaths ==
    \A r, q \in RunIds :
        (/\ r # q /\ C36_AtWork(r) /\ C36_AtWork(q)
         /\ runs[r].url # runs[q].url)
        => Filename(runs[r].url) # Filename(runs[q].url)

\* C37: during the startup reconciliation every url of the loaded journal
\* that is being resumed has a record in the journal on disk, so that a
\* kill at that point does not lose the download.
C37_NeverLost ==
    phase = "starting"
    => \A i \in DOMAIN ToResume(saved_records) :
           Find(LoadDownloads, ToResume(saved_records)[i]) > 0

\* C38: a record of a url that has none appears in the memory only in the
\* step of add_download for that url (or when the journal is loaded), and
\* appears in the journal on disk only when the memory holds it; the
\* engine's update, the snapshots and the terminal events add no record.
C38_NoResurrection ==
    [][\A u \in AllUrls :
          /\ (Find(records, u) = 0 /\ Find(records', u) > 0 /\ phase # "down")
             => /\ ui.todo # <<>> /\ Head(ui.todo) \in {AddOp(u, TRUE), AddOp(u, FALSE)}
                /\ nextRun' = nextRun + 1
                /\ runs'[nextRun'].url = u /\ runs'[nextRun'].pc = "wait"
          /\ (Find(LoadDownloads, u) = 0 /\ Find(LoadDownloads', u) > 0)
             => Find(records, u) > 0 /\ records' = records /\ ui.pc = "rename"
      ]_vars

\* C38: a cancelled download was deleted, the terminal event of its engine
\* was handled, and neither the memory nor the journal on disk has a
\* record of its url
C38_Witness ==
    \E r \in RunIds :
        /\ runs[r].cancelled /\ ~runs[r].row /\ runs[r].rx = "ended"
        /\ runs[r].head_status = 200
        /\ ui = IdleUi /\ nextRun = 1 /\ kills = 0
        /\ Find(records, runs[r].url) = 0
        /\ Find(LoadDownloads, runs[r].url) = 0


----------------------------------------------------------------------------
(* C39 *)

\* the order of the mutexes: a thread that holds one only asks for a later one
LockRank(l) ==
    CASE l = "timer_running" -> 0
      [] l = "last_size" -> 0
      [] l = "task" -> 1
      [] l = "state" -> 2
      [] l = "records" -> 3
      [] l = "config" -> 3
      [] l = "last_update" -> 4
      [] l = "progress" -> 5
      [] l = "last_downloaded" -> 6
      [] l = "file" -> 7

HeldBy(t) == {l \in LockNames : locks.held[l] = t}

\* the thread asks for a mutex that somebody holds
Waits(t) ==
    /\ NextOp(t)[1] = "lock"
    /\ locks.held[NextOp(t)[2]] # Nobody

RECURSIVE WaitsForever(_, _)
\* the chain of holders that starts at t is n waiting threads long; with
\* more links than threads the chain is a circle
WaitsForever(t, n) ==
    IF n = 0 THEN TRUE
    ELSE /\ Waits(t)
         /\ WaitsForever(locks.held[NextOp(t)[2]], n - 1)

\* C39: the threads cannot deadlock on the mutexes. A thread that asks for
\* a mutex holds only mutexes that come earlier in one order (task before
\* records, state before records and config, last_update before progress
\* before last_downloaded), and no thread waits in a circle of threads
\* that wait for each other, itself included.
C39_NoLockDeadlock ==
    /\ \A t \in Threads :
          NextOp(t)[1] = "lock"
          => \A l \in HeldBy(t) : LockRank(l) < LockRank(NextOp(t)[2])
    /\ \A t \in Threads : ~WaitsForever(t, Cardinality(Threads) + 1)

\* the pause handler holds the task and waits for the records the engine
\* holds, while one worker waits for the task and the other reports its
\* progress with three mutexes in its hands
C39_Witness ==
    /\ HeldBy(MainThread) = {"task"}
    /\ NextOp(MainThread) = Lock("records")
    /\ locks.held["records"] = EngineThread
    /\ \E w \in LockWorkers : /\ HeldBy(w) = {}
                              /\ NextOp(w) = Lock("task")
    /\ \E w \in LockWorkers :
          HeldBy(w) = {"last_update", "progress", "last_downloaded"}


----------------------------------------------------------------------------
(* C40 *)

\* the engine of the run has started and has not ended
C40_Active(r) == runs[r].pc \notin {"none", "done"}

\* C40: with the fair scheduling of the threads, requests that return and
\* streams that end, an engine whose download is, from some moment on, not
\* paused ends (or its process is killed and the run is gone with it); the
\* step in which an engine ends puts its terminal event, Complete or Error,
\* on the channel, and in that step every segment worker of the run has
\* returned already and none is left afterwards.
C40_Terminates ==
    /\ [][\A r \in RunIds :
            (C40_Active(r) /\ runs'[r].pc = "done")
            => /\ Len(runs'[r].chan) = Len(runs[r].chan) + 1
               /\ Last(runs'[r].chan).type \in {"Complete", "Error"}
               /\ \A w \in DOMAIN runs[r].workers :
                     runs[r].workers[w].pc \in {"ok", "err"}
               /\ runs'[r].workers = <<>>
         ]_vars
    /\ \A r \in RunIds :
         (<>[](~runs[r].paused)) => (C40_Active(r) ~> ~C40_Active(r))

\* every worker of a parallel engine has returned, one with an error and
\* one without, the download is neither paused nor cancelled, and the
\* terminal event is the next step of the engine
C40_Witness ==
    \E r \in RunIds :
        /\ runs[r].pc = "par_run" /\ Len(runs[r].workers) >= 2
        /\ ~runs[r].paused /\ ~runs[r].cancelled
        /\ \A w \in DOMAIN runs[r].workers :
              runs[r].workers[w].pc \in {"ok", "err"}
        /\ \E w \in DOMAIN runs[r].workers : runs[r].workers[w].pc = "ok"
        /\ \E w \in DOMAIN runs[r].workers : runs[r].workers[w].pc = "err"

====
